---- MODULE Spec2Model ----
(***************************************************************************)
(* The resume builder: its keyword analysis and suggestion engine          *)
(* (src/src/ats_optimizer.py, class ATSOptimizer), its console             *)
(* application (src/src/resume_builder.py, class ResumeBuilder) and, of    *)
(* its GUI (src/src/resume_builder_gui.py), the single-instance lock and   *)
(* the personal-information tab.                                           *)
(*                                                                         *)
(* A text is a sequence of characters, each character a one-character      *)
(* string.  The regular expressions of analyze_job_description are         *)
(* modelled character by character, so that a pattern matches wherever the *)
(* Python pattern matches, inside a longer word included.  The tagger      *)
(* (spaCy's pipeline, self.nlp) is not part of the repository: it is       *)
(* modelled as a tokenizer followed by a lexicon from surface form to      *)
(* part of speech; the label of a word the tagger may label in more than   *)
(* one way is drawn, once, when the word first occurs in a text.           *)
(***************************************************************************)
EXTENDS Naturals, Sequences, FiniteSets, Bags, TLC

VARIABLES
    nlp,              \* ATSOptimizer.nlp: the tagger's labels of the ambiguous
                      \* words seen so far, surface form -> pos_
    job_description,  \* the job description the caller holds (characters)
    resume_text,      \* the resume text the caller holds (characters)
    pc,               \* "edit", "analyzed" (analyze_job_description returned),
                      \* "suggested" (get_optimization_suggestions returned);
                      \* in the applications, the place in the method that runs
    analysis,         \* the profile built by analyze_job_description
    suggestions,      \* the list returned by get_optimization_suggestions
    optimized_text,   \* the string returned by optimize_text(resume_text)
    nlp_again,        \* the tagger's labels of the ambiguous words in the text
                      \* optimized_text, when that text is tagged in its turn
    optimized_again,  \* the string returned by optimize_text(optimized_text)
    history,          \* the calls that have returned: arguments and result
    held,             \* the profile the caller holds from an earlier call
    threads,          \* of each thread: where it is in its call, and the
                      \* call's operation and arguments
    frames,           \* of each thread: the local names analysis and
                      \* suggestions of its call
    model_installed,  \* the language model en_core_web_sm is installed
    nlp_loaded,       \* self.nlp holds a loaded pipeline
    resume_data,      \* ResumeBuilder.resume_data: the sections collected
    console,          \* what the console application has asked and printed,
                      \* in order, each question with its answer
    document,         \* the paragraphs of the document that was opened
    saved,            \* the documents written to the output directory
    lock_file,        \* ~/ResumeBuilder/resume_builder.lock: whether it exists,
                      \* its text, and whether it can be created and written
    procs,            \* of each process id: what the process that has it is
                      \* doing, the pid it read from the lock file, and
                      \* whether the file it has opened still has its name
    typed             \* the GUI's personal-information fields, as typed

main_vars == <<job_description, resume_text, pc, analysis, suggestions>>
text_vars == <<optimized_text, nlp_again, optimized_again>>
call_vars == <<history, held>>
thread_vars == <<threads, frames>>
console_vars == <<resume_data, console, document, saved>>
gui_vars == <<lock_file, procs, typed>>
app_vars == <<model_installed, nlp_loaded, console_vars, gui_vars>>

vars == <<nlp, job_description, resume_text, pc, analysis, suggestions,
          optimized_text, nlp_again, optimized_again, history, held,
          threads, frames, model_installed, nlp_loaded,
          resume_data, console, document, saved, lock_file, procs, typed>>

(***************************************************************************)
(* Bounds of the model.                                                    *)
(***************************************************************************)
MaxJobLines == 2

(***************************************************************************)
(* Characters.                                                             *)
(***************************************************************************)
UpperLetters ==
    <<"A", "B", "C", "D", "E", "F", "G", "H", "I", "J", "K", "L", "M",
      "N", "O", "P", "Q", "R", "S", "T", "U", "V", "W", "X", "Y", "Z">>
LowerLetters ==
    <<"a", "b", "c", "d", "e", "f", "g", "h", "i", "j", "k", "l", "m",
      "n", "o", "p", "q", "r", "s", "t", "u", "v", "w", "x", "y", "z">>
Digits == {"0", "1", "2", "3", "4", "5", "6", "7", "8", "9"}
UpperSet == {UpperLetters[i] : i \in 1..26}
LowerSet == {LowerLetters[i] : i \in 1..26}
ToLower == [c \in UpperSet |-> LowerLetters[CHOOSE i \in 1..26 : UpperLetters[i] = c]]
Spaces == {" ", "\n", "\t"}
WordChars == UpperSet \cup LowerSet \cup Digits \cup {"_"}

\* str.lower() on one character
LowerChar(c) == IF c \in UpperSet THEN ToLower[c] ELSE c

\* str.lower()
Lower(s) == [i \in 1..Len(s) |-> LowerChar(s[i])]

\* the regular-expression classes \s, \w and \d on the model's characters
IsSpace(c) == c \in Spaces
IsWord(c) == c \in WordChars
IsDigit(c) == c \in Digits

\* str.strip(): leading and trailing whitespace removed
RECURSIVE LStrip(_)
LStrip(s) ==
    IF s # <<>> /\ IsSpace(Head(s)) THEN LStrip(Tail(s)) ELSE s
RECURSIVE RStrip(_)
RStrip(s) ==
    IF s # <<>> /\ IsSpace(s[Len(s)]) THEN RStrip(SubSeq(s, 1, Len(s) - 1)) ELSE s
Strip(s) == RStrip(LStrip(s))

\* the least element of a non-empty set of numbers
Least(S) == CHOOSE x \in S : \A y \in S : x <= y

\* str.find(c) + 1: the index of the first occurrence of character c in s, 0 if none
IndexOf(s, c) ==
    LET at == {i \in 1..Len(s) : s[i] = c}
    IN  IF at = {} THEN 0 ELSE Least(at)

(***************************************************************************)
(* Regular-expression pieces.  All patterns are compiled with              *)
(* re.IGNORECASE and are written in lower case: they are matched against   *)
(* the case-folded text t.  A match attempt at position i of t gives the   *)
(* position just after the match, or 0 when there is no match.             *)
(***************************************************************************)

\* a literal
Lit(t, i, w) ==
    IF /\ i >= 1
       /\ i + Len(w) - 1 <= Len(t)
       /\ t[i] = w[1]
       /\ SubSeq(t, i, i + Len(w) - 1) = w
    THEN i + Len(w)
    ELSE 0

\* \s*  (greedy; nothing that follows it in the patterns starts with whitespace)
RECURSIVE SkipSpaces(_, _)
SkipSpaces(t, i) ==
    IF i <= Len(t) /\ IsSpace(t[i]) THEN SkipSpaces(t, i + 1) ELSE i

\* \d*  (greedy)
RECURSIVE SkipDigits(_, _)
SkipDigits(t, i) ==
    IF i <= Len(t) /\ IsDigit(t[i]) THEN SkipDigits(t, i + 1) ELSE i

\* .*  with re.DOTALL: up to the end of the text
TextEnd(t, i) == Len(t) + 1

\* .*?(?=\n|$)  : up to, not including, the next newline or the end of the text
LineEnd(t, i) == Least({j \in i..Len(t) : t[j] = "\n"} \cup {Len(t) + 1})

\* w1|w2|... : the first alternative that matches at i
RECURSIVE Alt(_, _, _)
Alt(t, i, ws) ==
    IF ws = <<>> THEN 0
    ELSE IF Lit(t, i, Head(ws)) # 0 THEN Lit(t, i, Head(ws))
    ELSE Alt(t, i, Tail(ws))

\* c?  : one optional character
Opt(t, i, c) ==
    IF i <= Len(t) /\ t[i] = c THEN i + 1 ELSE i

(***************************************************************************)
(* The texts of the patterns of analyze_job_description.                   *)
(***************************************************************************)
L_required == <<"r", "e", "q", "u", "i", "r", "e", "d", ":">>
L_must_have == <<"m", "u", "s", "t", " ", "h", "a", "v", "e", ":">>
L_requirements == <<"r", "e", "q", "u", "i", "r", "e", "m", "e", "n", "t", "s", ":">>
L_preferred == <<"p", "r", "e", "f", "e", "r", "r", "e", "d", ":">>
L_nice_to_have == <<"n", "i", "c", "e", " ", "t", "o", " ", "h", "a", "v", "e", ":">>
L_bonus == <<"b", "o", "n", "u", "s", ":">>
L_education == <<"e", "d", "u", "c", "a", "t", "i", "o", "n", ":">>
L_level == <<"l", "e", "v", "e", "l", ":">>
W_year == <<"y", "e", "a", "r">>
W_yr == <<"y", "r">>
W_of == <<"o", "f">>
W_experience == <<"e", "x", "p", "e", "r", "i", "e", "n", "c", "e">>
W_level == <<"l", "e", "v", "e", "l">>
W_entry == <<"e", "n", "t", "r", "y">>
W_mid == <<"m", "i", "d">>
W_senior == <<"s", "e", "n", "i", "o", "r">>
W_lead == <<"l", "e", "a", "d">>
W_principal == <<"p", "r", "i", "n", "c", "i", "p", "a", "l">>
W_bachelors == <<"b", "a", "c", "h", "e", "l", "o", "r", "'", "s">>
W_masters == <<"m", "a", "s", "t", "e", "r", "'", "s">>
W_phd == <<"p", "h", "d">>
W_degree == <<"d", "e", "g", "r", "e", "e">>
W_bs == <<"b", "s">>
W_ms == <<"m", "s">>

\* (entry|mid|senior|lead|principal)
Levels == <<W_entry, W_mid, W_senior, W_lead, W_principal>>

\* The pattern lists, each pattern named by its regular expression.
required_patterns == <<"required:.*?(?=\\n|$)", "must have:.*?(?=\\n|$)",
                       "requirements:.*?(?=\\n|$)">>
preferred_patterns == <<"preferred:.*?(?=\\n|$)", "nice to have:.*?(?=\\n|$)",
                        "bonus:.*?(?=\\n|$)">>
experience_patterns == <<"(\\d+)\\+?\\s*(?:years?|yrs?)\\s*of\\s*experience",
                         "experience\\s*level:\\s*(entry|mid|senior|lead|principal)",
                         "(entry|mid|senior|lead|principal)\\s*level">>
education_patterns == <<"bachelor's|master's|phd|degree", "bs|ms|phd",
                        "education:\\s*.*?(?=\\n|$)">>

\* label:?.*?(?=\n|$), the colon of the label optional
LabelledLineOptionalColon(t, i, label) ==
    LET a == Lit(t, i, SubSeq(label, 1, Len(label) - 1))
    IN  IF a = 0 THEN 0 ELSE LineEnd(t, Opt(t, a, ":"))

\* label:.*?(?=\n|$)
LabelledLine(t, i, label) ==
    LET a == Lit(t, i, label)
    IN  IF a = 0 THEN 0 ELSE LineEnd(t, a)

\* (\d+)\+?\s*(?:years?|yrs?)\s*of\s*experience
YearsOfExperience(t, i) ==
    IF ~(i <= Len(t) /\ IsDigit(t[i])) THEN 0
    ELSE
    LET a == SkipSpaces(t, Opt(t, SkipDigits(t, i), "+"))
        b == IF Lit(t, a, W_year) # 0 THEN Opt(t, Lit(t, a, W_year), "s")
             ELSE IF Lit(t, a, W_yr) # 0 THEN Opt(t, Lit(t, a, W_yr), "s")
             ELSE 0
        c == IF b = 0 THEN 0 ELSE Lit(t, SkipSpaces(t, b), W_of)
    IN  IF c = 0 THEN 0 ELSE Lit(t, SkipSpaces(t, c), W_experience)

\* experience\s*level:\s*(entry|mid|senior|lead|principal)
ExperienceLevel(t, i) ==
    LET a == Lit(t, i, W_experience)
        b == IF a = 0 THEN 0 ELSE Lit(t, SkipSpaces(t, a), L_level)
    IN  IF b = 0 THEN 0 ELSE Alt(t, SkipSpaces(t, b), Levels)

\* (entry|mid|senior|lead|principal)\s*level
LevelLevel(t, i) ==
    LET a == Alt(t, i, Levels)
    IN  IF a = 0 THEN 0 ELSE Lit(t, SkipSpaces(t, a), W_level)

\* education:\s*.*?(?=\n|$)
EducationLine(t, i) ==
    LET a == Lit(t, i, L_education)
    IN  IF a = 0 THEN 0 ELSE LineEnd(t, SkipSpaces(t, a))

\* re.match of pattern p at position i of t: the end of the match, or 0
MatchAt(p, t, i) ==
    CASE p = "required:.*?(?=\\n|$)" -> LabelledLine(t, i, L_required)
      [] p = "must have:.*?(?=\\n|$)" -> LabelledLine(t, i, L_must_have)
      [] p = "requirements:.*?(?=\\n|$)" -> LabelledLine(t, i, L_requirements)
      [] p = "preferred:.*?(?=\\n|$)" -> LabelledLine(t, i, L_preferred)
      [] p = "nice to have:.*?(?=\\n|$)" -> LabelledLine(t, i, L_nice_to_have)
      [] p = "bonus:.*?(?=\\n|$)" -> LabelledLine(t, i, L_bonus)
      [] p = "(\\d+)\\+?\\s*(?:years?|yrs?)\\s*of\\s*experience" ->
            YearsOfExperience(t, i)
      [] p = "experience\\s*level:\\s*(entry|mid|senior|lead|principal)" ->
            ExperienceLevel(t, i)
      [] p = "(entry|mid|senior|lead|principal)\\s*level" -> LevelLevel(t, i)
      [] p = "bachelor's|master's|phd|degree" ->
            Alt(t, i, <<W_bachelors, W_masters, W_phd, W_degree>>)
      [] p = "bs|ms|phd" -> Alt(t, i, <<W_bs, W_ms, W_phd>>)
      [] p = "education:\\s*.*?(?=\\n|$)" -> EducationLine(t, i)

\* the characters a match of pattern p can start with
FirstChars(p) ==
    CASE p = "(\\d+)\\+?\\s*(?:years?|yrs?)\\s*of\\s*experience" -> Digits
      [] p = "(entry|mid|senior|lead|principal)\\s*level" -> {"e", "m", "s", "l", "p"}
      [] p = "bachelor's|master's|phd|degree" -> {"b", "m", "p", "d"}
      [] p = "bs|ms|phd" -> {"b", "m", "p"}
      [] p = "experience\\s*level:\\s*(entry|mid|senior|lead|principal)" -> {"e"}
      [] p = "education:\\s*.*?(?=\\n|$)" -> {"e"}
      [] p \in {"required:.*?(?=\\n|$)", "requirements:.*?(?=\\n|$)"} -> {"r"}
      [] p = "must have:.*?(?=\\n|$)" -> {"m"}
      [] p = "preferred:.*?(?=\\n|$)" -> {"p"}
      [] p = "nice to have:.*?(?=\\n|$)" -> {"n"}
      [] p = "bonus:.*?(?=\\n|$)" -> {"b"}

\* re.finditer(p, text, re.IGNORECASE) on the case-folded text t, from position
\* pos on: the spans <<start, end>> of the non-overlapping matches, leftmost
\* first (no pattern matches the empty string); starts holds the positions
\* where a match attempt succeeds
RECURSIVE FindFrom(_, _, _, _)
FindFrom(p, t, starts, pos) ==
    LET left == {i \in starts : i >= pos}
    IN  IF left = {} THEN <<>>
        ELSE <<<<Least(left), MatchAt(p, t, Least(left))>>>>
             \o FindFrom(p, t, starts, MatchAt(p, t, Least(left)))

FindIter(p, t) ==
    LET first == FirstChars(p)
    IN  FindFrom(p, t, {i \in {j \in 1..Len(t) : t[j] \in first} : MatchAt(p, t, i) # 0}, 1)

\* match.group(1) of the first experience pattern, the number alone (of the
\* other matches here, the whole match)
Group1(text, m) ==
    IF IsDigit(text[m[1]]) THEN SubSeq(text, m[1], SkipDigits(text, m[1]) - 1)
    ELSE SubSeq(text, m[1], m[2] - 1)

\* match.group(0)
Group0(text, m) == SubSeq(text, m[1], m[2] - 1)

\* match.group(0).split(':', 1)[0].strip(): the label, not what follows it
BeforeFirstColon(s) == Strip(SubSeq(s, 1, IndexOf(s, ":") - 1))

\* s.split(':', 1): one part when s has no colon, two parts otherwise
SplitColon(s) ==
    LET k == IndexOf(s, ":")
    IN  IF k = 0 THEN <<s>> ELSE <<SubSeq(s, 1, k - 1), SubSeq(s, k + 1, Len(s))>>

\* match.group(0).split(':', 1)[1].strip()
AfterFirstColon(s) == Strip(SplitColon(s)[2])

(***************************************************************************)
(* The tagger, self.nlp(text): a tokenizer and a part-of-speech lexicon.   *)
(* Whitespace separates tokens, a run of word characters is one token and  *)
(* every other character is a token of its own.                            *)
(***************************************************************************)
T_design == <<"d", "e", "s", "i", "g", "n">>
T_Design == <<"D", "e", "s", "i", "g", "n">>
T_sql == <<"s", "q", "l">>
W_required == <<"r", "e", "q", "u", "i", "r", "e", "d">>
W_must == <<"m", "u", "s", "t">>
W_have == <<"h", "a", "v", "e">>
W_requirements == <<"r", "e", "q", "u", "i", "r", "e", "m", "e", "n", "t", "s">>
W_preferred == <<"p", "r", "e", "f", "e", "r", "r", "e", "d">>
W_bonus == <<"b", "o", "n", "u", "s">>
W_years == <<"y", "e", "a", "r", "s">>
W_yrs == <<"y", "r", "s">>
W_education == <<"e", "d", "u", "c", "a", "t", "i", "o", "n">>
W_great == <<"g", "r", "e", "a", "t">>
W_systems == <<"s", "y", "s", "t", "e", "m", "s">>
W_jobs == <<"j", "o", "b", "s">>
W_nice == <<"n", "i", "c", "e">>
W_professional == <<"p", "r", "o", "f", "e", "s", "s", "i", "o", "n", "a", "l">>
W_summary == <<"s", "u", "m", "m", "a", "r", "y">>
W_skills == <<"s", "k", "i", "l", "l", "s">>
T_percent == <<"%">>

\* token.pos_ values
Pos == {"NOUN", "PROPN", "VERB", "ADJ", "X"}

\* the categories optimize_text capitalizes, in place of the categories
\* extract_keywords keeps
KeywordPosCapitalized == {"NOUN", "PROPN", "VERB"}

\* the categories extract_keywords keeps
KeywordPos == {"NOUN", "VERB", "ADJ"}

\* The surface forms the tagger may label in more than one way, with the
\* labels it may give; every other word has one label, by its lower-case form.
Ambiguous ==
    [w \in {T_Design, T_sql, W_lead} |->
        IF w = W_lead THEN {"ADJ", "NOUN"} ELSE {"NOUN", "PROPN"}]
Nouns == {T_design, W_requirements, W_bonus, W_years, W_yrs, W_experience, W_level,
          W_degree, W_education, W_systems, W_jobs, T_percent, W_summary, W_skills}
Verbs == {W_required, W_have, W_preferred}
Adjectives == {W_senior, W_great, W_nice, W_professional}
ProperNouns == {W_phd, W_bs, W_ms}

\* the lexicons the tagger may have once it has seen the words of W as well
Taggers(W) ==
    {f \in [DOMAIN nlp \cup W -> Pos] :
        /\ \A w \in DOMAIN nlp : f[w] = nlp[w]
        /\ \A w \in W : f[w] \in Ambiguous[w]}

\* token.pos_ when the tagger's labels of the ambiguous words are lex
PosIn(lex, tok) ==
    IF tok \in DOMAIN lex THEN lex[tok]
    ELSE LET w == Lower(tok)
         IN  IF w \in Nouns THEN "NOUN"
             ELSE IF w \in Verbs THEN "VERB"
             ELSE IF w \in Adjectives THEN "ADJ"
             ELSE IF w \in ProperNouns THEN "PROPN"
             ELSE "X"

\* token.pos_
PosOf(tok) == PosIn(nlp, tok)

\* the end of the run of word characters that starts at i
RECURSIVE WordEnd(_, _)
WordEnd(t, i) ==
    IF i <= Len(t) /\ IsWord(t[i]) THEN WordEnd(t, i + 1) ELSE i

\* the token texts of t from position i on
RECURSIVE TokensFrom(_, _)
TokensFrom(t, i) ==
    LET a == SkipSpaces(t, i)
    IN  IF a > Len(t) THEN <<>>
        ELSE IF IsWord(t[a])
             THEN <<SubSeq(t, a, WordEnd(t, a) - 1)>> \o TokensFrom(t, WordEnd(t, a))
             ELSE <<<<t[a]>>>> \o TokensFrom(t, a + 1)

\* the ambiguous words of text that the tagger has not labelled yet
NewWords(text) ==
    LET toks == TokensFrom(text, 1)
    IN  {w \in DOMAIN Ambiguous \ DOMAIN nlp : \E k \in 1..Len(toks) : toks[k] = w}

\* the tokens of t, each with its text and its pos_, when the tagger's labels
\* of the ambiguous words are lex
TagIn(lex, t) ==
    LET toks == TokensFrom(t, 1)
    IN  [k \in 1..Len(toks) |-> [text |-> toks[k], pos_ |-> PosIn(lex, toks[k])]]

\* doc = self.nlp(text): the tokens, each with its text and its pos_
Tag(t) == TagIn(nlp, t)

(***************************************************************************)
(* optimize_text: characters outside [\w\s.,;:()] are removed, every run   *)
(* of whitespace becomes one space, the text is tagged, every token is     *)
(* written back followed by one space, capitalized when its label is NOUN, *)
(* PROPN or VERB, and the result is stripped.  The tagger gives a          *)
(* whitespace token only for whitespace that follows no token; such a      *)
(* token adds spaces at the start of the result, which strip() removes, so *)
(* the tokens below are the tokens that are not whitespace.                *)
(***************************************************************************)
KeptPunctuation == {".", ",", ";", ":", "(", ")"}

\* a character class that also keeps "+"
KeptWithPlus(c) == IsWord(c) \/ IsSpace(c) \/ c \in KeptPunctuation \cup {"+"}

\* the characters outside the class [^\w\s.,;:()]
Kept(c) == IsWord(c) \/ IsSpace(c) \/ c \in KeptPunctuation

\* re.sub(r'[^\w\s.,;:()]', '', text)
RemoveSpecial(text) == SelectSeq(text, Kept)

\* re.sub(r'\s+', ' ', text)
RECURSIVE CollapseSpaces(_)
CollapseSpaces(text) ==
    IF text = <<>> THEN <<>>
    ELSE IF IsSpace(text[1])
         THEN <<" ">> \o CollapseSpaces(SubSeq(text, SkipSpaces(text, 1), Len(text)))
         ELSE <<text[1]>> \o CollapseSpaces(Tail(text))

UpperChar(c) ==
    IF c \in LowerSet THEN UpperLetters[CHOOSE i \in 1..26 : LowerLetters[i] = c] ELSE c

\* str.capitalize(): the first character in upper case, the rest in lower case
Capitalize(s) ==
    IF s = <<>> THEN <<>> ELSE <<UpperChar(s[1])>> \o Lower(Tail(s))

\* the labels of the tokens that optimize_text capitalizes
ImportantPos == {"NOUN", "PROPN", "VERB"}

\* the loop over the tokens, adding to what is written so far
RECURSIVE WriteTokens(_, _)
WriteTokens(written, doc) ==
    IF doc = <<>> THEN written
    ELSE WriteTokens(
             written \o (IF doc[1].pos_ \in ImportantPos
                         THEN Capitalize(doc[1].text)
                         ELSE doc[1].text) \o <<" ">>,
             Tail(doc))

\* the loop started from the cleaned text instead of the empty string
OptimizeAppending(lex, text) ==
    LET cleaned == CollapseSpaces(RemoveSpecial(text))
    IN  Strip(WriteTokens(cleaned, TagIn(lex, cleaned)))

\* optimize_text(text) when the tagger's labels of the ambiguous words are lex
OptimizeWith(lex, text) ==
    LET cleaned == CollapseSpaces(RemoveSpecial(text))
    IN  Strip(WriteTokens(<<>>, TagIn(lex, cleaned)))

optimize_text(text) == OptimizeWith(nlp, text)

(***************************************************************************)
(* ATSOptimizer.extract_keywords.  A list whose order the code does not    *)
(* decide (list(set(...)), and the lists built from such lists) is         *)
(* modelled as a bag: its entries, each with the number of times it        *)
(* occurs in the list.                                                     *)
(***************************************************************************)
\* the list keywords at the end of the loop over the tokens
keywords(text) ==
    LET doc == Tag(text)
        kept == {k \in 1..Len(doc) : doc[k].pos_ \in KeywordPos}
    IN  [w \in {Lower(doc[k].text) : k \in kept} |->
            Cardinality({k \in kept : Lower(doc[k].text) = w})]

\* extract_keywords that returns the list keywords as it is
extract_keywords_list(text) == keywords(text)

\* return list(set(keywords))
extract_keywords(text) == SetToBag(BagToSet(keywords(text)))

(***************************************************************************)
(* ATSOptimizer.analyze_job_description.                                   *)
(***************************************************************************)
\* spans sorted by the position at which they start
RECURSIVE SortByStart(_)
SortByStart(ms) ==
    IF ms = <<>> THEN <<>>
    ELSE LET k == CHOOSE k \in 1..Len(ms) :
                      \A j \in 1..Len(ms) :
                          \/ ms[k][1] < ms[j][1]
                          \/ ms[k][1] = ms[j][1] /\ k <= j
         IN  <<ms[k]>> \o SortByStart(SubSeq(ms, 1, k - 1) \o SubSeq(ms, k + 1, Len(ms)))

\* the matches of all the patterns, visited in the order of their positions
\* in the text
RECURSIVE MatchesByPosition(_, _)
MatchesByPosition(patterns, text) ==
    IF patterns = <<>> THEN <<>>
    ELSE SortByStart(FindIter(Head(patterns), text)
                     \o MatchesByPosition(Tail(patterns), text))

\* for pattern in patterns: for match in re.finditer(pattern, text,
\* re.IGNORECASE): the spans, in the order the two loops visit them; text is
\* the case-folded text
RECURSIVE Matches(_, _)
Matches(patterns, text) ==
    IF patterns = <<>> THEN <<>>
    ELSE FindIter(Head(patterns), text) \o Matches(Tail(patterns), text)

\* ExtendAll with the field assigned, not extended: the keywords of the last
\* match alone
ExtendLast(ms, text) ==
    IF ms = <<>> THEN EmptyBag
    ELSE extract_keywords(AfterFirstColon(Group0(text, ms[Len(ms)])))

\* analysis[...].extend(self.extract_keywords(skills_text)) for each match
RECURSIVE ExtendAll(_, _)
ExtendAll(ms, text) ==
    IF ms = <<>> THEN EmptyBag
    ELSE extract_keywords(AfterFirstColon(Group0(text, Head(ms))))
         (+) ExtendAll(Tail(ms), text)

\* analysis[...].append(match.group(0)) for each match
AppendAll(ms, text) == [k \in 1..Len(ms) |-> Group0(text, ms[k])]

\* the dictionary of lines 68-74
EmptyAnalysis ==
    [required_skills |-> EmptyBag, preferred_skills |-> EmptyBag,
     experience_level |-> <<>>, education_requirements |-> <<>>,
     keywords |-> EmptyBag]

\* the dictionary of the call before, kept and filled again
KeptAnalysis == held

\* analysis = {...}: the dictionary is created in the call
FreshAnalysis == EmptyAnalysis

\* match.group(0).split(':', 1)[1] raises IndexError for some match of the
\* required or of the preferred patterns: the split gave one part only
IndexError(text) ==
    LET ms == Matches(required_patterns, Lower(text)) \o Matches(preferred_patterns, Lower(text))
    IN  \E k \in 1..Len(ms) : Len(SplitColon(Group0(text, ms[k]))) < 2

analyze_job_description(text) ==
    LET folded == Lower(text)
        created == FreshAnalysis
    IN  [required_skills |->
             created.required_skills (+) ExtendAll(Matches(required_patterns, folded), text),
         preferred_skills |->
             created.preferred_skills (+) ExtendAll(Matches(preferred_patterns, folded), text),
         experience_level |->
             created.experience_level \o AppendAll(Matches(experience_patterns, folded), text),
         education_requirements |->
             created.education_requirements \o AppendAll(Matches(education_patterns, folded), text),
         keywords |-> extract_keywords(text)]

(***************************************************************************)
(* ATSOptimizer.get_optimization_suggestions.                              *)
(***************************************************************************)
S_required == <<"C", "o", "n", "s", "i", "d", "e", "r", " ", "a", "d", "d", "i", "n", "g", " ", "t", "h", "e", "s", "e", " ", "r", "e", "q", "u", "i", "r", "e", "d", " ", "s", "k", "i", "l", "l", "s", ":", " ">>
S_preferred == <<"C", "o", "n", "s", "i", "d", "e", "r", " ", "a", "d", "d", "i", "n", "g", " ", "t", "h", "e", "s", "e", " ", "p", "r", "e", "f", "e", "r", "r", "e", "d", " ", "s", "k", "i", "l", "l", "s", ":", " ">>
S_experience == <<"E", "n", "s", "u", "r", "e", " ", "y", "o", "u", "r", " ", "e", "x", "p", "e", "r", "i", "e", "n", "c", "e", " ", "m", "a", "t", "c", "h", "e", "s", " ", "t", "h", "e", " ", "r", "e", "q", "u", "i", "r", "e", "d", " ", "l", "e", "v", "e", "l", ":", " ">>
S_education == <<"V", "e", "r", "i", "f", "y", " ", "y", "o", "u", " ", "m", "e", "e", "t", " ", "t", "h", "e", " ", "e", "d", "u", "c", "a", "t", "i", "o", "n", " ", "r", "e", "q", "u", "i", "r", "e", "m", "e", "n", "t", "s", ":", " ">>
Sep == <<",", " ">>

\* sep.join(items)
RECURSIVE Join(_, _)
Join(items, sep) ==
    IF items = <<>> THEN <<>>
    ELSE IF Len(items) = 1 THEN items[1]
    ELSE items[1] \o sep \o Join(Tail(items), sep)

\* the orders in which iterating over the set S may give its elements
Orders(S) ==
    {o \in [1..Cardinality(S) -> S] : \A x \in S : \E k \in 1..Cardinality(S) : o[k] = x}

\* Missing with the operands of the set difference exchanged
MissingSwapped(skills, resume_keywords) == BagToSet(resume_keywords) \ BagToSet(skills)

\* Missing without the set difference
MissingAll(skills, resume_keywords) == BagToSet(skills)

\* set(job_analysis[field]) - set(resume_keywords)
Missing(skills, resume_keywords) == BagToSet(skills) \ BagToSet(resume_keywords)

\* Suggestions with the preferred-skills check written before the
\* required-skills check
SuggestionsPreferredFirst(job_analysis, missing_required, missing_preferred) ==
    (IF missing_preferred # <<>>
     THEN <<S_preferred \o Join(missing_preferred, Sep)>> ELSE <<>>)
    \o (IF missing_required # <<>>
        THEN <<S_required \o Join(missing_required, Sep)>> ELSE <<>>)
    \o (IF job_analysis.experience_level # <<>>
        THEN <<S_experience \o Join(job_analysis.experience_level, Sep)>> ELSE <<>>)
    \o (IF job_analysis.education_requirements # <<>>
        THEN <<S_education \o Join(job_analysis.education_requirements, Sep)>> ELSE <<>>)

\* Suggestions with the four checks chained by elif: only the first check that
\* holds adds its suggestion
SuggestionsElif(job_analysis, missing_required, missing_preferred) ==
    IF missing_required # <<>>
    THEN <<S_required \o Join(missing_required, Sep)>>
    ELSE IF missing_preferred # <<>>
    THEN <<S_preferred \o Join(missing_preferred, Sep)>>
    ELSE IF job_analysis.experience_level # <<>>
    THEN <<S_experience \o Join(job_analysis.experience_level, Sep)>>
    ELSE IF job_analysis.education_requirements # <<>>
    THEN <<S_education \o Join(job_analysis.education_requirements, Sep)>>
    ELSE <<>>

\* the suggestions list, given the orders in which the two sets of missing
\* skills are iterated
\* the required-skills suggestion made when the job description has keywords
SuggestionsByKeywords(job_analysis, missing_required, missing_preferred) ==
    (IF job_analysis.keywords # EmptyBag
     THEN <<S_required \o Join(missing_required, Sep)>> ELSE <<>>)
    \o (IF missing_preferred # <<>>
        THEN <<S_preferred \o Join(missing_preferred, Sep)>> ELSE <<>>)
    \o (IF job_analysis.experience_level # <<>>
        THEN <<S_experience \o Join(job_analysis.experience_level, Sep)>> ELSE <<>>)
    \o (IF job_analysis.education_requirements # <<>>
        THEN <<S_education \o Join(job_analysis.education_requirements, Sep)>> ELSE <<>>)

\* every suggestion appended without its `if`
SuggestionsUnguarded(job_analysis, missing_required, missing_preferred) ==
    << S_required \o Join(missing_required, Sep),
       S_preferred \o Join(missing_preferred, Sep),
       S_experience \o Join(job_analysis.experience_level, Sep),
       S_education \o Join(job_analysis.education_requirements, Sep) >>

Suggestions(job_analysis, missing_required, missing_preferred) ==
    (IF missing_required # <<>>
     THEN <<S_required \o Join(missing_required, Sep)>> ELSE <<>>)
    \o (IF missing_preferred # <<>>
        THEN <<S_preferred \o Join(missing_preferred, Sep)>> ELSE <<>>)
    \o (IF job_analysis.experience_level # <<>>
        THEN <<S_experience \o Join(job_analysis.experience_level, Sep)>> ELSE <<>>)
    \o (IF job_analysis.education_requirements # <<>>
        THEN <<S_education \o Join(job_analysis.education_requirements, Sep)>> ELSE <<>>)

(***************************************************************************)
(* The texts a caller may pass: a job description of up to MaxJobLines     *)
(* lines of JobLines and one of the resume texts of ResumeTexts.           *)
(***************************************************************************)
JobLines == {
    <<"R", "e", "q", "u", "i", "r", "e", "d", ":", " ", "d", "e", "s", "i", "g", "n", ",", " ", "s", "q", "l">>,
    <<"M", "u", "s", "t", " ", "h", "a", "v", "e", ":", " ", "D", "e", "s", "i", "g", "n", ",", " ", "3", " ", "y", "r", "s", " ", "o", "f", " ", "e", "x", "p", "e", "r", "i", "e", "n", "c", "e">>,
    <<"P", "r", "e", "f", "e", "r", "r", "e", "d", ":", " ", "s", "q", "l", ",", " ", "P", "h", "D">>,
    <<"B", "o", "n", "u", "s", ":", " ", "d", "e", "s", "i", "g", "n", ",", " ", "n", "i", "c", "e", " ", "t", "o", " ", "h", "a", "v", "e", ":", " ", "s", "q", "l">>,
    <<"5", "+", " ", "y", "e", "a", "r", "s", " ", "o", "f", " ", "e", "x", "p", "e", "r", "i", "e", "n", "c", "e", " ", "r", "e", "q", "u", "i", "r", "e", "d">>,
    <<"E", "x", "p", "e", "r", "i", "e", "n", "c", "e", " ", "l", "e", "v", "e", "l", ":", " ", "S", "e", "n", "i", "o", "r", " ", "l", "e", "v", "e", "l">>,
    <<"b", "s", " ", "d", "e", "g", "r", "e", "e">>,
    <<"e", "d", "u", "c", "a", "t", "i", "o", "n", ":", " ", "m", "s">>,
    <<"g", "r", "e", "a", "t", " ", "s", "y", "s", "t", "e", "m", "s", " ", "j", "o", "b", "s">>,
    <<"R", "e", "q", "u", "i", "r", "e", "m", "e", "n", "t", "s", ":", " ", "D", "e", "s", "i", "g", "n", ",", " ", "s", "q", "l">>,
    <<"R", "e", "q", "u", "i", "r", "e", "m", "e", "n", "t", "s", ":">>,
    <<"P", "r", "e", "f", "e", "r", "r", "e", "d", ":", " ">>,
    <<"R", "e", "q", "u", "i", "r", "e", "d", ":", " ", "5", "%">>,
    <<" ">> }

ResumeTexts == {T_design, T_sql, T_Design \o <<" ">> \o T_sql, <<" ", "\n">>}

\* the number of lines of a text
LineCount(text) ==
    IF text = <<>> THEN 0 ELSE 1 + Cardinality({i \in 1..Len(text) : text[i] = "\n"})

(***************************************************************************)
(* Threads that call the one ATSOptimizer at the same time.  A thread's    *)
(* call has its own local names; the object itself holds the tagger only.  *)
(***************************************************************************)
NumThreads == 2
Threads == 1..NumThreads

\* a thread that is in no call, and the local names of no call
Idle == [pc |-> "idle", op |-> "none", job |-> <<>>, resume |-> <<>>]
NoFrame == [analysis |-> EmptyAnalysis, suggestions |-> <<>>]

\* ResumeBuilder.__init__: resume_data = {}; nothing asked, opened or written
NoConsole ==
    /\ resume_data = [section \in {} |-> <<>>]
    /\ console = <<>>
    /\ document = <<>>
    /\ saved = <<>>

\* the process ids of the machine
NumPids == 2
Pids == 1..NumPids

\* no process with this id; no lock file
NoProcess == [pc |-> "free", pid |-> 0, linked |-> FALSE]
NoFile == [exists |-> FALSE, text |-> <<>>, writable |-> TRUE]

\* the fields of the personal-information tab
Fields == {"full_name", "email", "phone", "location", "linkedin"}

\* no GUI process, no lock file, nothing typed
NoGui ==
    /\ lock_file = NoFile
    /\ procs = [p \in Pids |-> NoProcess]
    /\ typed = [key \in Fields |-> <<>>]

Init ==
    /\ nlp = [w \in {} |-> "X"]
    /\ job_description = <<>>
    /\ resume_text = <<>>
    /\ pc = "edit"
    /\ analysis = EmptyAnalysis
    /\ suggestions = <<>>
    /\ optimized_text = <<>>
    /\ nlp_again = [w \in {} |-> "X"]
    /\ optimized_again = <<>>
    /\ history = <<>>
    /\ held = EmptyAnalysis
    /\ threads = [t \in Threads |-> Idle]
    /\ frames = [t \in Threads |-> NoFrame]
    /\ model_installed = TRUE
    /\ nlp_loaded = TRUE
    /\ NoConsole
    /\ NoGui

\* the caller adds a line to the job description
TypeJobLine ==
    /\ pc = "edit"
    /\ LineCount(job_description) < MaxJobLines
    /\ \E line \in JobLines :
          /\ job_description' =
                 IF job_description = <<>> THEN line
                 ELSE job_description \o <<"\n">> \o line
          /\ nlp' \in Taggers(NewWords(line))
    /\ UNCHANGED <<resume_text, pc, analysis, suggestions>>
    /\ UNCHANGED text_vars
    /\ UNCHANGED call_vars
    /\ UNCHANGED thread_vars
    /\ UNCHANGED app_vars

\* the caller loads a resume text
LoadResume ==
    /\ pc = "edit"
    /\ resume_text = <<>>
    /\ \E text \in ResumeTexts :
          /\ resume_text' = text
          /\ nlp' \in Taggers(NewWords(text))
    /\ UNCHANGED <<job_description, pc, analysis, suggestions>>
    /\ UNCHANGED text_vars
    /\ UNCHANGED call_vars
    /\ UNCHANGED thread_vars
    /\ UNCHANGED app_vars

\* a call of analyze_job_description(job_description)
AnalyzeJobDescription ==
    /\ pc = "edit"
    /\ IF IndexError(job_description)
       THEN pc' = "raised" /\ UNCHANGED analysis
       ELSE /\ analysis' = analyze_job_description(job_description)
            /\ pc' = "analyzed"
    /\ UNCHANGED <<nlp, job_description, resume_text, suggestions>>
    /\ UNCHANGED text_vars
    /\ UNCHANGED call_vars
    /\ UNCHANGED thread_vars
    /\ UNCHANGED app_vars

\* a call of get_optimization_suggestions(resume_text, job_description)
GetOptimizationSuggestions ==
    /\ pc = "edit"
    /\ IF IndexError(job_description)
       THEN pc' = "raised" /\ UNCHANGED <<analysis, suggestions>>
       ELSE
       LET job_analysis == analyze_job_description(job_description)
           resume_keywords == extract_keywords(resume_text)
       IN  /\ analysis' = job_analysis
           /\ \E missing_required \in Orders(Missing(job_analysis.required_skills, resume_keywords)),
                 missing_preferred \in Orders(Missing(job_analysis.preferred_skills, resume_keywords)) :
                 suggestions' = Suggestions(job_analysis, missing_required, missing_preferred)
           /\ pc' = "suggested"
    /\ UNCHANGED <<nlp, job_description, resume_text>>
    /\ UNCHANGED text_vars
    /\ UNCHANGED call_vars
    /\ UNCHANGED thread_vars
    /\ UNCHANGED app_vars

\* a call of optimize_text(resume_text)
OptimizeText ==
    /\ pc = "edit"
    /\ optimized_text' = optimize_text(resume_text)
    /\ pc' = "optimized"
    /\ UNCHANGED <<nlp, job_description, resume_text, analysis, suggestions>>
    /\ UNCHANGED <<nlp_again, optimized_again>>
    /\ UNCHANGED call_vars
    /\ UNCHANGED thread_vars
    /\ UNCHANGED app_vars

\* the caller is done with the result and edits the texts again
Discard ==
    /\ pc \in {"analyzed", "suggested", "optimized", "reoptimized", "raised"}
    /\ pc' = "edit"
    /\ analysis' = EmptyAnalysis
    /\ suggestions' = <<>>
    /\ optimized_text' = <<>>
    /\ nlp_again' = [w \in {} |-> "X"]
    /\ optimized_again' = <<>>
    /\ UNCHANGED <<nlp, job_description, resume_text>>
    /\ UNCHANGED call_vars
    /\ UNCHANGED thread_vars
    /\ UNCHANGED app_vars

Next ==
    \/ TypeJobLine
    \/ LoadResume
    \/ AnalyzeJobDescription
    \/ GetOptimizationSuggestions
    \/ OptimizeText
    \/ Discard

Spec == Init /\ [][Next]_vars

(***************************************************************************)
(* The normalizer on its own.  optimize_document passes each paragraph of  *)
(* a document to optimize_text and stores the result as the paragraph's    *)
(* text, so a document optimized twice has its paragraphs passed through   *)
(* optimize_text twice.  The paragraphs are built from up to MaxPieces     *)
(* pieces: words of each kind of label, kept and removed punctuation,      *)
(* spaces and line ends.  The tagger labels a word in the text it stands   *)
(* in: the same text gets the same labels, another text may get others.    *)
(***************************************************************************)
MaxPieces == 3

T_PhD == <<"P", "h", "D">>

Pieces == {W_lead, T_design, T_PhD, <<",">>, <<"+">>, <<" ">>, <<"\n">>}

\* the texts of up to n pieces
RECURSIVE TextsOf(_)
TextsOf(n) ==
    IF n = 0 THEN {<<>>}
    ELSE LET shorter == TextsOf(n - 1)
         IN  shorter \cup {t \o p : t \in shorter, p \in Pieces}

\* the caller takes a paragraph of the document
LoadParagraph ==
    /\ pc = "edit"
    /\ resume_text = <<>>
    /\ \E text \in TextsOf(MaxPieces) \ {<<>>} :
          /\ resume_text' = text
          /\ nlp' \in Taggers(NewWords(text))
    /\ UNCHANGED <<job_description, pc, analysis, suggestions>>
    /\ UNCHANGED text_vars
    /\ UNCHANGED call_vars
    /\ UNCHANGED thread_vars
    /\ UNCHANGED app_vars

\* the labels the tagger may give the ambiguous words of text
LabelsFor(text) ==
    IF text = resume_text THEN {nlp}
    ELSE LET toks == TokensFrom(text, 1)
             W == {toks[k] : k \in 1..Len(toks)} \cap DOMAIN Ambiguous
         IN  {f \in [W -> Pos] : \A w \in W : f[w] \in Ambiguous[w]}

\* a call of optimize_text(optimized_text), the result of the first call
OptimizeAgain ==
    /\ pc = "optimized"
    /\ \E lex \in LabelsFor(optimized_text) :
          /\ nlp_again' = lex
          /\ optimized_again' = OptimizeWith(lex, optimized_text)
    /\ pc' = "reoptimized"
    /\ UNCHANGED <<nlp, job_description, resume_text, analysis, suggestions>>
    /\ UNCHANGED optimized_text
    /\ UNCHANGED call_vars
    /\ UNCHANGED thread_vars
    /\ UNCHANGED app_vars

NextText ==
    \/ LoadParagraph
    \/ OptimizeText
    \/ OptimizeAgain
    \/ Discard

SpecText == Init /\ [][NextText]_vars

(***************************************************************************)
(* Calls one after the other on one ATSOptimizer.  The caller chooses the  *)
(* arguments of each call, keeps the profile a call returns and may change *)
(* it; up to MaxCalls calls return.                                        *)
(***************************************************************************)
MaxCalls == 2

J_required == <<"R", "e", "q", "u", "i", "r", "e", "d", ":", " ", "d", "e", "s", "i", "g", "n", ",", " ", "s", "q", "l">>
J_preferred == <<"P", "r", "e", "f", "e", "r", "r", "e", "d", ":", " ", "s", "q", "l", ",", " ", "P", "h", "D">>
J_education == <<"e", "d", "u", "c", "a", "t", "i", "o", "n", ":", " ", "m", "s">>

CallJobs == {J_required, J_preferred, J_education}
CallResumes == {T_design, W_great}

\* the caller chooses the arguments of the next call
SetArguments ==
    /\ pc = "edit"
    /\ Len(history) < MaxCalls
    /\ \E job \in CallJobs, resume \in CallResumes :
          /\ job_description' = job
          /\ resume_text' = resume
          /\ nlp' \in Taggers(NewWords(job) \cup NewWords(resume))
    /\ UNCHANGED <<pc, analysis, suggestions>>
    /\ UNCHANGED text_vars
    /\ UNCHANGED call_vars
    /\ UNCHANGED thread_vars
    /\ UNCHANGED app_vars

\* the call returns: its local names are gone, the caller has the result
Return ==
    /\ pc \in {"analyzed", "suggested"}
    /\ Len(history) < MaxCalls
    /\ history' = Append(history,
                         [op |-> pc, job |-> job_description, resume |-> resume_text,
                          analysis |-> analysis, suggestions |-> suggestions])
    /\ held' = IF pc = "analyzed" THEN analysis ELSE held
    /\ analysis' = EmptyAnalysis
    /\ suggestions' = <<>>
    /\ pc' = "edit"
    /\ UNCHANGED <<nlp, job_description, resume_text>>
    /\ UNCHANGED text_vars
    /\ UNCHANGED thread_vars
    /\ UNCHANGED app_vars

\* the caller appends to the required_skills of the profile it holds
MutateProfile ==
    /\ pc = "edit"
    /\ history # <<>>
    /\ CopiesIn(W_nice, held.required_skills) = 0
    /\ held' = [held EXCEPT !.required_skills = @ (+) SetToBag({W_nice})]
    /\ UNCHANGED <<nlp, job_description, resume_text, pc, analysis, suggestions, history>>
    /\ UNCHANGED text_vars
    /\ UNCHANGED thread_vars
    /\ UNCHANGED app_vars

NextCalls ==
    \/ SetArguments
    \/ AnalyzeJobDescription
    \/ GetOptimizationSuggestions
    \/ Return
    \/ MutateProfile

SpecCalls == Init /\ [][NextCalls]_vars

(***************************************************************************)
(* Calls at the same time.  Each thread runs analyze_job_description or    *)
(* get_optimization_suggestions on its own texts, a statement group at a   *)
(* time, and the steps of the threads interleave.  The tagger is only read *)
(* by a call: nlp gets the labels of a call's words when the call starts,  *)
(* which are the labels the tagger has for them at all times.              *)
(***************************************************************************)
ThreadJobs == {J_required, J_education}
ThreadResumes == {W_great}

\* one dictionary and one list for all calls, kept in the object
SharedFrame(t) == 1

\* the local names of thread t's call
Frame(t) == t

\* split(':', 1)[1] raises IndexError for a match of the patterns
RaisesIn(patterns, text) ==
    LET ms == Matches(patterns, Lower(text))
    IN  \E k \in 1..Len(ms) : Len(SplitColon(Group0(text, ms[k]))) < 2

\* thread t goes to the step next, with analysis as the dictionary of its call
Goes(t, next, analysis_now) ==
    /\ threads' = [threads EXCEPT ![t].pc = next]
    /\ frames' = [frames EXCEPT ![Frame(t)].analysis = analysis_now]
    /\ UNCHANGED nlp
    /\ UNCHANGED main_vars
    /\ UNCHANGED text_vars
    /\ UNCHANGED call_vars
    /\ UNCHANGED app_vars

\* thread t calls analyze_job_description(job) or
\* get_optimization_suggestions(resume, job)
StartCall(t) ==
    /\ threads[t].pc = "idle"
    /\ \E job \in ThreadJobs :
          \/ /\ threads' = [threads EXCEPT ![t] =
                     [pc |-> "called", op |-> "analyze", job |-> job, resume |-> <<>>]]
             /\ nlp' \in Taggers(NewWords(job))
          \/ \E resume \in ThreadResumes :
                /\ threads' = [threads EXCEPT ![t] =
                       [pc |-> "called", op |-> "suggest", job |-> job, resume |-> resume]]
                /\ nlp' \in Taggers(NewWords(job) \cup NewWords(resume))
    /\ UNCHANGED frames
    /\ UNCHANGED main_vars
    /\ UNCHANGED text_vars
    /\ UNCHANGED call_vars
    /\ UNCHANGED app_vars

\* suggestions = []; analysis = {...}; analysis['keywords'] = ...
CreateAnalysis(t) ==
    /\ threads[t].pc = "called"
    /\ threads' = [threads EXCEPT ![t].pc = "required"]
    /\ frames' = [frames EXCEPT ![Frame(t)] =
           [analysis |-> [FreshAnalysis EXCEPT !.keywords = extract_keywords(threads[t].job)],
            suggestions |-> <<>>]]
    /\ UNCHANGED nlp
    /\ UNCHANGED main_vars
    /\ UNCHANGED text_vars
    /\ UNCHANGED call_vars
    /\ UNCHANGED app_vars

\* the loop over required_patterns
ScanRequired(t) ==
    /\ threads[t].pc = "required"
    /\ LET text == threads[t].job
           now == frames[Frame(t)].analysis
       IN  IF RaisesIn(required_patterns, text) THEN Goes(t, "raised", now)
           ELSE Goes(t, "preferred",
                     [now EXCEPT !.required_skills =
                         @ (+) ExtendAll(Matches(required_patterns, Lower(text)), text)])

\* the loop over preferred_patterns
ScanPreferred(t) ==
    /\ threads[t].pc = "preferred"
    /\ LET text == threads[t].job
           now == frames[Frame(t)].analysis
       IN  IF RaisesIn(preferred_patterns, text) THEN Goes(t, "raised", now)
           ELSE Goes(t, "experience",
                     [now EXCEPT !.preferred_skills =
                         @ (+) ExtendAll(Matches(preferred_patterns, Lower(text)), text)])

\* the loop over experience_patterns
ScanExperience(t) ==
    /\ threads[t].pc = "experience"
    /\ LET text == threads[t].job
           now == frames[Frame(t)].analysis
       IN  Goes(t, "education",
                [now EXCEPT !.experience_level =
                    @ \o AppendAll(Matches(experience_patterns, Lower(text)), text)])

\* the loop over education_patterns, and return analysis
ScanEducation(t) ==
    /\ threads[t].pc = "education"
    /\ LET text == threads[t].job
           now == frames[Frame(t)].analysis
       IN  Goes(t, IF threads[t].op = "analyze" THEN "done" ELSE "analyzed",
                [now EXCEPT !.education_requirements =
                    @ \o AppendAll(Matches(education_patterns, Lower(text)), text)])

\* get_optimization_suggestions after its call of analyze_job_description
Suggest(t) ==
    /\ threads[t].pc = "analyzed"
    /\ LET job_analysis == frames[Frame(t)].analysis
           resume_keywords == extract_keywords(threads[t].resume)
       IN  \E missing_required \in Orders(Missing(job_analysis.required_skills, resume_keywords)),
              missing_preferred \in Orders(Missing(job_analysis.preferred_skills, resume_keywords)) :
              frames' = [frames EXCEPT ![Frame(t)].suggestions =
                            @ \o Suggestions(job_analysis, missing_required, missing_preferred)]
    /\ threads' = [threads EXCEPT ![t].pc = "done"]
    /\ UNCHANGED nlp
    /\ UNCHANGED main_vars
    /\ UNCHANGED text_vars
    /\ UNCHANGED call_vars
    /\ UNCHANGED app_vars

\* the caller of thread t is done with the result
Finish(t) ==
    /\ threads[t].pc \in {"done", "raised"}
    /\ threads' = [threads EXCEPT ![t] = Idle]
    /\ frames' = [frames EXCEPT ![Frame(t)] = NoFrame]
    /\ UNCHANGED nlp
    /\ UNCHANGED main_vars
    /\ UNCHANGED text_vars
    /\ UNCHANGED call_vars
    /\ UNCHANGED app_vars

NextThreads ==
    \E t \in Threads :
        \/ StartCall(t)
        \/ CreateAnalysis(t)
        \/ ScanRequired(t)
        \/ ScanPreferred(t)
        \/ ScanExperience(t)
        \/ ScanEducation(t)
        \/ Suggest(t)
        \/ Finish(t)

SpecThreads == Init /\ [][NextThreads]_vars

(***************************************************************************)
(* Construction.  ATSOptimizer.__init__ loads the language model; when     *)
(* that raises OSError it downloads the model and loads it again.  The     *)
(* download may fail (spacy.cli.download then ends the program) and the    *)
(* second load may raise; neither is caught.  pc is "start" before the     *)
(* constructor runs and "aborted" when it has raised.                      *)
(***************************************************************************)
InitStart ==
    /\ nlp = [w \in {} |-> "X"]
    /\ job_description = <<>>
    /\ resume_text = <<>>
    /\ pc = "start"
    /\ analysis = EmptyAnalysis
    /\ suggestions = <<>>
    /\ optimized_text = <<>>
    /\ nlp_again = [w \in {} |-> "X"]
    /\ optimized_again = <<>>
    /\ history = <<>>
    /\ held = EmptyAnalysis
    /\ threads = [t \in Threads |-> Idle]
    /\ frames = [t \in Threads |-> NoFrame]
    /\ model_installed \in BOOLEAN
    /\ nlp_loaded = FALSE
    /\ NoConsole
    /\ NoGui

\* the except branch sets self.nlp to nothing and the constructor returns
ContinueDegraded == "edit"

\* where the constructor ends when the model cannot be loaded: the error of
\* the download or of the second spacy.load leaves __init__
AfterFailedLoad == "aborted"

\* ATSOptimizer()
Construct ==
    /\ pc = "start"
    /\ IF model_installed
       THEN /\ nlp_loaded' = TRUE
            /\ pc' = "edit"
            /\ UNCHANGED model_installed
       ELSE \E download \in {"installed", "failed", "unusable"} :
               IF download = "installed"
               THEN /\ model_installed' = TRUE
                    /\ nlp_loaded' = TRUE
                    /\ pc' = "edit"
               ELSE /\ pc' = AfterFailedLoad
                    /\ UNCHANGED <<model_installed, nlp_loaded>>
    /\ UNCHANGED <<nlp, job_description, resume_text, analysis, suggestions>>
    /\ UNCHANGED text_vars
    /\ UNCHANGED call_vars
    /\ UNCHANGED thread_vars
    /\ UNCHANGED console_vars
    /\ UNCHANGED gui_vars

\* the program is started again after the constructor has raised
StartAgain ==
    /\ pc = "aborted"
    /\ pc' = "start"
    /\ model_installed' \in BOOLEAN
    /\ UNCHANGED <<nlp, job_description, resume_text, analysis, suggestions, nlp_loaded>>
    /\ UNCHANGED text_vars
    /\ UNCHANGED call_vars
    /\ UNCHANGED thread_vars
    /\ UNCHANGED console_vars
    /\ UNCHANGED gui_vars

NextStart ==
    \/ Construct
    \/ StartAgain
    \/ TypeJobLine
    \/ AnalyzeJobDescription
    \/ GetOptimizationSuggestions
    \/ OptimizeText
    \/ Discard

SpecStart == InitStart /\ [][NextStart]_vars

(***************************************************************************)
(* The console application (src/src/resume_builder.py, class               *)
(* ResumeBuilder).  start() asks whether there is a resume already and     *)
(* runs optimize_existing_resume or create_new_resume.  A question of the  *)
(* program and its answer, and a line the program prints, are entries of   *)
(* console; a document written to the output directory is an entry of      *)
(* saved.  pc is "edit" before start() and then the place in the method    *)
(* that runs; "done" when start() has returned, "raised" when an error     *)
(* has left it.                                                            *)
(***************************************************************************)
\* w in s
Contains(s, w) ==
    \E i \in 1..(Len(s) + 1 - Len(w)) : SubSeq(s, i, i + Len(w) - 1) = w

\* s.split(c)
RECURSIVE Split(_, _)
Split(s, c) ==
    LET k == IndexOf(s, c)
    IN  IF k = 0 THEN <<s>>
        ELSE <<SubSeq(s, 1, k - 1)>> \o Split(SubSeq(s, k + 1, Len(s)), c)

\* [skill.strip() for skill in s.split(",")]
SplitSkills(s) ==
    LET parts == Split(s, ",")
    IN  [k \in 1..Len(parts) |-> Strip(parts[k])]

\* the lists of a list of lists, one after the other
RECURSIVE Flatten(_)
Flatten(lists) ==
    IF lists = <<>> THEN <<>> ELSE lists[1] \o Flatten(Tail(lists))

\* an entry of console: a question with its answer, or a printed line
Asked(event, item, answer) == [event |-> event, item |-> item, answer |-> answer]
Said(event, item) == [event |-> event, item |-> item, answer |-> FALSE]

\* what the user may type
T_Ann == <<"A", "n", "n">>
T_mail == <<"a", "@", "b", ".", "c">>
T_Rome == <<"R", "o", "m", "e">>
T_my_level == <<"m", "y", " ", "e", "x", "p", "e", "r", "i", "e", "n", "c", "e", " ", "l", "e", "v", "e", "l">>
T_great_design == <<"g", "r", "e", "a", "t", " ", "d", "e", "s", "i", "g", "n">>
T_design_sql == <<"d", "e", "s", "i", "g", "n", ",", " ", "s", "q", "l">>
T_great_systems == <<"g", "r", "e", "a", "t", " ", "s", "y", "s", "t", "e", "m", "s">>

PersonalInfo ==
    [full_name |-> T_Ann, email |-> T_mail, phone |-> <<"1">>,
     location |-> T_Rome, linkedin |-> <<>>]
Summaries == {<<>>, T_great_design, T_my_level}
WorkExperiences ==
    {<<>>, <<[company |-> W_ms, position |-> W_lead, start_date |-> <<"1">>,
              end_date |-> <<"2">>, description |-> T_great_systems]>>}
Educations ==
    {<<>>, <<[institution |-> W_bs, degree |-> W_ms, field |-> W_systems,
              graduation_date |-> <<"3">>, gpa |-> <<"4">>]>>}
SkillInputs == {<<>>, T_sql, T_design_sql}

\* the phrases apply_optimization_suggestions looks for, and the texts of
\* the sentence it adds to the summary
B_required_skills == <<"r", "e", "q", "u", "i", "r", "e", "d", " ", "s", "k", "i", "l", "l", "s">>
B_preferred_skills == <<"p", "r", "e", "f", "e", "r", "r", "e", "d", " ", "s", "k", "i", "l", "l", "s">>
B_experience_level == <<"e", "x", "p", "e", "r", "i", "e", "n", "c", "e", " ", "l", "e", "v", "e", "l">>
B_education_requirements == <<"e", "d", "u", "c", "a", "t", "i", "o", "n", " ", "r", "e", "q", "u", "i", "r", "e", "m", "e", "n", "t", "s">>
F_with == <<" ", "W", "i", "t", "h", " ">>
F_of_experience == <<" ", "o", "f", " ", "e", "x", "p", "e", "r", "i", "e", "n", "c", "e", ".">>

\* the headings and separators of the resume text and of the document
H_summary == <<"P", "r", "o", "f", "e", "s", "s", "i", "o", "n", "a", "l", " ", "S", "u", "m", "m", "a", "r", "y">>
H_experience == <<"P", "r", "o", "f", "e", "s", "s", "i", "o", "n", "a", "l", " ", "E", "x", "p", "e", "r", "i", "e", "n", "c", "e">>
H_education == <<"E", "d", "u", "c", "a", "t", "i", "o", "n">>
H_skills == <<"S", "k", "i", "l", "l", "s">>
F_dash == <<" ", "-", " ">>
F_in == <<" ", "i", "n", " ">>
F_bar == <<" ", "|", " ">>
F_gpa == <<" ", "|", " ", "G", "P", "A", ":", " ">>

\* ResumeBuilder._generate_resume_text
generate_resume_text(data) ==
    LET info == data.personal_info
        Work(exp) == <<exp.company \o F_dash \o exp.position,
                       exp.start_date \o F_dash \o exp.end_date,
                       exp.description>>
        Study(edu) == <<edu.institution \o F_dash \o edu.degree \o F_in \o edu.field,
                        edu.graduation_date>>
        text_parts ==
            <<info.full_name,
              info.email \o <<" ">> \o info.phone \o <<" ">> \o info.location,
              <<"\n">> \o H_summary,
              data.professional_summary,
              <<"\n">> \o H_experience>>
            \o Flatten([k \in 1..Len(data.work_experience) |-> Work(data.work_experience[k])])
            \o <<<<"\n">> \o H_education>>
            \o Flatten([k \in 1..Len(data.education) |-> Study(data.education[k])])
            \o <<<<"\n">> \o H_skills, Join(data.skills, Sep)>>
    IN  Join(text_parts, <<"\n">>)

\* the paragraphs of the document generate_resume builds
ResumeParagraphs(data) ==
    LET info == data.personal_info
        Work(exp) == <<exp.company \o F_bar \o exp.position,
                       exp.start_date \o F_dash \o exp.end_date,
                       exp.description, <<>> >>
        Study(edu) == <<edu.institution \o F_bar \o edu.degree \o F_in \o edu.field,
                        edu.graduation_date
                            \o (IF edu.gpa # <<>> THEN F_gpa \o edu.gpa ELSE <<>>),
                        <<>> >>
    IN  <<info.full_name,
          info.email \o F_bar \o info.phone \o F_bar \o info.location
              \o (IF info.linkedin # <<>> THEN F_bar \o info.linkedin ELSE <<>>),
          <<>>,
          H_summary, data.professional_summary, <<>>,
          H_experience>>
        \o Flatten([k \in 1..Len(data.work_experience) |-> Work(data.work_experience[k])])
        \o <<H_education>>
        \o Flatten([k \in 1..Len(data.education) |-> Study(data.education[k])])
        \o <<H_skills, Join(data.skills, Sep)>>

\* the branch of apply_optimization_suggestions that handles a suggestion
Branch(suggestion) ==
    LET folded == Lower(suggestion)
    IN  IF Contains(folded, B_required_skills) THEN "required"
        ELSE IF Contains(folded, B_preferred_skills) THEN "preferred"
        ELSE IF Contains(folded, B_experience_level) THEN "experience"
        ELSE IF Contains(folded, B_education_requirements) THEN "education"
        ELSE "none"

\* the questions the branch asks for a suggestion, in order
Questions(suggestion) ==
    LET branch == Branch(suggestion)
        part == Strip(Split(suggestion, ":")[2])
        new_skills == SplitSkills(part)
    IN  IF branch \in {"required", "preferred"}
        THEN [k \in 1..Len(new_skills) |-> [branch |-> branch, item |-> new_skills[k]]]
        ELSE IF branch \in {"experience", "education"}
        THEN <<[branch |-> branch, item |-> part]>>
        ELSE <<>>

\* every skill asked about is added, whatever the answer
AnsweredAlways(data, question, yes) ==
    IF question.branch \in {"required", "preferred"}
    THEN [data EXCEPT !.skills = Append(@, question.item)]
    ELSE data

\* resume_data after the answer to one question
Answered(data, question, yes) ==
    IF ~yes THEN data
    ELSE IF question.branch \in {"required", "preferred"}
    THEN [data EXCEPT !.skills = Append(@, question.item)]
    ELSE IF /\ question.branch = "experience"
            /\ ~Contains(Lower(data.professional_summary), Lower(question.item))
    THEN [data EXCEPT !.professional_summary =
              @ \o F_with \o question.item \o F_of_experience]
    ELSE data

\* what the console shows for one question: the question with its answer,
\* and the note printed when a skill or the education is declined
Shown(question, yes) ==
    <<Asked(question.branch, question.item, yes)>>
    \o (IF ~yes /\ question.branch # "experience"
        THEN <<Said("note", question.item)>> ELSE <<>>)

\* ResumeBuilder.apply_optimization_suggestions, the user answering the
\* k-th question with answers[k]
RECURSIVE AnswerFrom(_, _, _, _)
AnswerFrom(now, questions, answers, k) ==
    IF k > Len(questions) THEN now
    ELSE AnswerFrom([data |-> Answered(now.data, questions[k], answers[k]),
                     shown |-> now.shown \o Shown(questions[k], answers[k])],
                    questions, answers, k + 1)

apply_optimization_suggestions(data, list, answers) ==
    AnswerFrom([data |-> data, shown |-> <<>>],
               Flatten([k \in 1..Len(list) |-> Questions(list[k])]), answers, 1)

\* what the console actions leave alone
EngineIdle ==
    /\ UNCHANGED text_vars
    /\ UNCHANGED call_vars
    /\ UNCHANGED thread_vars
    /\ UNCHANGED <<model_installed, nlp_loaded>>
    /\ UNCHANGED gui_vars

\* start(): "Do you already have a resume you'd like to optimize?"
Start ==
    /\ pc = "edit"
    /\ console = <<>>
    /\ \E has_resume \in BOOLEAN :
          /\ console' = <<Asked("has_resume", <<>>, has_resume)>>
          /\ pc' = IF has_resume THEN "existing" ELSE "create"
    /\ UNCHANGED <<nlp, job_description, resume_text, analysis, suggestions>>
    /\ UNCHANGED <<resume_data, document, saved>>
    /\ EngineIdle

\* create_new_resume, the loop over the sections: collect_section_info
CollectSectionInfo ==
    /\ pc = "create"
    /\ \E summary \in Summaries, work \in WorkExperiences, education \in Educations,
          skills_input \in SkillInputs :
          resume_data' =
              [personal_info |-> PersonalInfo,
               professional_summary |-> summary,
               work_experience |-> work,
               education |-> education,
               skills |-> SplitSkills(skills_input)]
    /\ pc' = "collected"
    /\ UNCHANGED <<nlp, job_description, resume_text, analysis, suggestions>>
    /\ UNCHANGED <<console, document, saved>>
    /\ EngineIdle

\* create_new_resume: "Would you like to optimize this resume for a specific
\* job?", the job description and the text of the resume
AskJobDescription ==
    /\ pc = "collected"
    /\ \E yes \in BOOLEAN :
          IF yes
          THEN \E job \in JobLines :
                  /\ job_description' = job
                  /\ resume_text' = generate_resume_text(resume_data)
                  /\ nlp' \in Taggers(NewWords(job) \cup NewWords(resume_text'))
                  /\ console' = console \o <<Asked("optimize_for_job", <<>>, TRUE),
                                             Asked("job_description", job, TRUE)>>
                  /\ pc' = "described"
          ELSE /\ console' = Append(console, Asked("optimize_for_job", <<>>, FALSE))
               /\ pc' = "generate"
               /\ UNCHANGED <<nlp, job_description, resume_text>>
    /\ UNCHANGED <<analysis, suggestions>>
    /\ UNCHANGED <<resume_data, document, saved>>
    /\ EngineIdle

\* the call of get_optimization_suggestions and the display of its result,
\* in create_new_resume and in optimize_existing_resume
ShowSuggestions ==
    /\ pc \in {"described", "opened"}
    /\ LET job_analysis == analyze_job_description(job_description)
           resume_keywords == extract_keywords(resume_text)
       IN  /\ analysis' = job_analysis
           /\ \E missing_required \in Orders(Missing(job_analysis.required_skills, resume_keywords)),
                 missing_preferred \in Orders(Missing(job_analysis.preferred_skills, resume_keywords)) :
                 suggestions' = Suggestions(job_analysis, missing_required, missing_preferred)
    /\ console' = console \o [k \in 1..Len(suggestions') |-> Said("suggestion", suggestions'[k])]
    /\ pc' = IF pc = "described" THEN "shown" ELSE "shown_existing"
    /\ UNCHANGED <<nlp, job_description, resume_text>>
    /\ UNCHANGED <<resume_data, document, saved>>
    /\ EngineIdle

\* create_new_resume: "Would you like to apply these suggestions to your
\* resume?" and apply_optimization_suggestions
ApplySuggestions ==
    /\ pc = "shown"
    /\ \E yes \in BOOLEAN :
          IF yes
          THEN LET count == Len(Flatten([k \in 1..Len(suggestions) |-> Questions(suggestions[k])]))
               IN  \E answers \in [1..count -> BOOLEAN] :
                      LET after == apply_optimization_suggestions(resume_data, suggestions, answers)
                      IN  /\ resume_data' = after.data
                          /\ console' = console \o <<Asked("apply_suggestions", <<>>, TRUE)>> \o after.shown
          ELSE /\ console' = Append(console, Asked("apply_suggestions", <<>>, FALSE))
               /\ UNCHANGED resume_data
    /\ pc' = "generate"
    /\ UNCHANGED <<nlp, job_description, resume_text, analysis, suggestions>>
    /\ UNCHANGED <<document, saved>>
    /\ EngineIdle

\* create_new_resume, its last statement: generate_resume
GenerateResume ==
    /\ pc = "generate"
    /\ saved' = Append(saved, [file |-> "resume", paragraphs |-> ResumeParagraphs(resume_data)])
    /\ console' = Append(console, Said("saved", <<>>))
    /\ pc' = "done"
    /\ UNCHANGED <<nlp, job_description, resume_text, analysis, suggestions>>
    /\ UNCHANGED <<resume_data, document>>
    /\ EngineIdle

\* the files a path may name: none, a file that is no Word document, and
\* Word documents with these paragraphs
Documents == {<<T_design>>, <<T_Design \o <<" ">> \o T_sql, W_great>>, <<>>}

\* the document is saved although the user declined
SavedWhenDeclined == {TRUE, FALSE}

\* the answers after which optimize_existing_resume saves the document
SavedWhen == {TRUE}

\* optimize_existing_resume up to the job description: the path, the check
\* that the file exists, Document(file_path), the text of its paragraphs
OpenResume ==
    /\ pc = "existing"
    /\ \E file \in {"absent", "unreadable", "docx"} :
          IF file = "absent"
          THEN /\ console' = console \o <<Asked("file_path", <<>>, FALSE),
                                          Said("file_not_found", <<>>)>>
               /\ pc' = "done"
               /\ UNCHANGED <<nlp, job_description, resume_text, document>>
          ELSE IF file = "unreadable"
          THEN /\ console' = Append(console, Asked("file_path", <<>>, TRUE))
               /\ pc' = "raised"
               /\ UNCHANGED <<nlp, job_description, resume_text, document>>
          ELSE \E paragraphs \in Documents, job \in JobLines :
                  /\ document' = paragraphs
                  /\ resume_text' = Join(paragraphs, <<"\n">>)
                  /\ job_description' = job
                  /\ nlp' \in Taggers(NewWords(job) \cup NewWords(resume_text'))
                  /\ console' = console \o <<Asked("file_path", <<>>, TRUE),
                                             Asked("job_description", job, TRUE)>>
                  /\ pc' = "opened"
    /\ UNCHANGED <<analysis, suggestions>>
    /\ UNCHANGED <<resume_data, saved>>
    /\ EngineIdle

\* optimize_existing_resume: "Would you like to apply these optimizations to
\* your resume?", optimize_document and the save
OptimizeDocument ==
    /\ pc = "shown_existing"
    /\ \E yes \in BOOLEAN :
          /\ IF yes \in SavedWhen
             THEN /\ document' = [k \in 1..Len(document) |-> optimize_text(document[k])]
                  /\ saved' = Append(saved, [file |-> "optimized_resume", paragraphs |-> document'])
                  /\ console' = console \o <<Asked("apply_optimizations", <<>>, yes), Said("saved", <<>>)>>
             ELSE /\ console' = console \o <<Asked("apply_optimizations", <<>>, yes), Said("no_changes", <<>>)>>
                  /\ UNCHANGED <<document, saved>>
    /\ pc' = "done"
    /\ UNCHANGED <<nlp, job_description, resume_text, analysis, suggestions>>
    /\ UNCHANGED resume_data
    /\ EngineIdle

NextConsole ==
    \/ Start
    \/ CollectSectionInfo
    \/ AskJobDescription
    \/ ShowSuggestions
    \/ ApplySuggestions
    \/ GenerateResume
    \/ OpenResume
    \/ OptimizeDocument

SpecConsole == Init /\ [][NextConsole]_vars

(***************************************************************************)
(* The single-instance lock of the GUI (src/src/resume_builder_gui.py,     *)
(* check_single_instance and the main program).  Every call of the file    *)
(* system and of psutil is a step of its own, and the steps of the         *)
(* processes interleave.  A process id that is free may be given to a new  *)
(* process, of the GUI or of another program.  A process may be ended at   *)
(* any step without its exit handlers being run.                           *)
(***************************************************************************)
DigitChars == <<"0", "1", "2", "3", "4", "5", "6", "7", "8", "9">>

\* str(n)
RECURSIVE Str(_)
Str(n) ==
    IF n < 10 THEN <<DigitChars[n + 1]>>
    ELSE Str(n \div 10) \o <<DigitChars[(n % 10) + 1]>>

\* int(text) raises ValueError
ValueError(text) ==
    LET t == Strip(text)
    IN  t = <<>> \/ \E i \in 1..Len(t) : t[i] \notin Digits

\* int(text)
RECURSIVE Int(_)
Int(text) ==
    LET t == Strip(text)
    IN  IF t = <<>> THEN 0
        ELSE 10 * Int(SubSeq(t, 1, Len(t) - 1))
             + (CHOOSE d \in 0..9 : DigitChars[d + 1] = t[Len(t)])

\* psutil.pid_exists(pid)
pid_exists(pid) == pid \in Pids /\ procs[pid].pc # "free"

\* the places of a GUI process
GuiPlaces == {"check", "read", "alive", "stale", "invalid", "write", "writing",
              "window", "refused", "error"}

\* process p goes to place next, the others stay; a process that has ended
\* holds nothing
At(p, next) ==
    procs' = [procs EXCEPT ![p] = IF next = "free" THEN NoProcess
                                  ELSE [@ EXCEPT !.pc = next]]

\* os.remove(lock_file): the name is gone, for the processes that have the
\* file open as well
Remove(p, next) ==
    /\ lock_file' = [lock_file EXCEPT !.exists = FALSE, !.text = <<>>]
    /\ procs' = [q \in Pids |->
                    IF q = p
                    THEN IF next = "free" THEN NoProcess
                         ELSE [procs[q] EXCEPT !.pc = next, !.linked = FALSE]
                    ELSE [procs[q] EXCEPT !.linked = FALSE]]

\* what the steps of the lock leave alone
OnlyLock ==
    /\ UNCHANGED <<nlp, job_description, resume_text, pc, analysis, suggestions>>
    /\ UNCHANGED text_vars
    /\ UNCHANGED call_vars
    /\ UNCHANGED thread_vars
    /\ UNCHANGED <<model_installed, nlp_loaded>>
    /\ UNCHANGED console_vars
    /\ UNCHANGED typed

\* the GUI is started: a new process, with a process id that is free
Launch(p) ==
    /\ procs[p].pc = "free"
    /\ At(p, "check")
    /\ UNCHANGED lock_file
    /\ OnlyLock

\* a process of another program gets the process id, or ends
OtherProgram(p) ==
    /\ procs[p].pc \in {"free", "other"}
    /\ At(p, IF procs[p].pc = "free" THEN "other" ELSE "free")
    /\ UNCHANGED lock_file
    /\ OnlyLock

\* if os.path.exists(lock_file)
Exists(p) ==
    /\ procs[p].pc = "check"
    /\ At(p, IF lock_file.exists THEN "read" ELSE "write")
    /\ UNCHANGED lock_file
    /\ OnlyLock

\* with open(lock_file, 'r') as f: pid = int(f.read().strip())
ReadLock(p) ==
    /\ procs[p].pc = "read"
    /\ IF ~lock_file.exists \/ ValueError(lock_file.text)
       THEN At(p, "invalid")
       ELSE procs' = [procs EXCEPT ![p].pc = "alive", ![p].pid = Int(lock_file.text)]
    /\ UNCHANGED lock_file
    /\ OnlyLock

\* if psutil.pid_exists(pid): return False
PidExists(p) ==
    /\ procs[p].pc = "alive"
    /\ At(p, IF pid_exists(procs[p].pid) THEN "refused" ELSE "stale")
    /\ UNCHANGED lock_file
    /\ OnlyLock

\* else: os.remove(lock_file); when the file is gone the error is caught by
\* the except clause
RemoveStale(p) ==
    /\ procs[p].pc = "stale"
    /\ IF lock_file.exists THEN Remove(p, "write")
       ELSE At(p, "invalid") /\ UNCHANGED lock_file
    /\ OnlyLock

\* except (ValueError, IOError): os.remove(lock_file); when the file is gone
\* the error leaves check_single_instance
RemoveInvalid(p) ==
    /\ procs[p].pc = "invalid"
    /\ IF lock_file.exists THEN Remove(p, "write")
       ELSE At(p, "error") /\ UNCHANGED lock_file
    /\ OnlyLock

\* open(lock_file, 'w'): the file is created, or emptied; except IOError:
\* return False
OpenLock(p) ==
    /\ procs[p].pc = "write"
    /\ IF lock_file.writable
       THEN /\ lock_file' = [lock_file EXCEPT !.exists = TRUE, !.text = <<>>]
            /\ procs' = [procs EXCEPT ![p].pc = "writing", ![p].linked = TRUE]
       ELSE At(p, "refused") /\ UNCHANGED lock_file
    /\ OnlyLock

\* f.write(str(os.getpid())), atexit.register(...), return True: the window
\* is created
WriteLock(p) ==
    /\ procs[p].pc = "writing"
    /\ At(p, "window")
    /\ IF procs[p].linked
       THEN lock_file' = [lock_file EXCEPT !.text = Str(p)]
       ELSE UNCHANGED lock_file
    /\ OnlyLock

\* the window is closed: the process ends and its exit handler removes the
\* lock file if there is one
Quit(p) ==
    /\ procs[p].pc = "window"
    /\ IF lock_file.exists THEN Remove(p, "free")
       ELSE At(p, "free") /\ UNCHANGED lock_file
    /\ OnlyLock

\* messagebox.showerror(...); sys.exit(1), and the end of the program after
\* the error message of the except clause
Exit(p) ==
    /\ procs[p].pc \in {"refused", "error"}
    /\ At(p, "free")
    /\ UNCHANGED lock_file
    /\ OnlyLock

\* the process is ended from outside
Crash(p) ==
    /\ procs[p].pc \in GuiPlaces
    /\ At(p, "free")
    /\ UNCHANGED lock_file
    /\ OnlyLock

\* the disk fills up, or room is made on it
Disk ==
    /\ lock_file' = [lock_file EXCEPT !.writable = ~@]
    /\ UNCHANGED procs
    /\ OnlyLock

NextLock ==
    \/ Disk
    \/ \E p \in Pids :
        \/ Launch(p)
        \/ OtherProgram(p)
        \/ Exists(p)
        \/ ReadLock(p)
        \/ PidExists(p)
        \/ RemoveStale(p)
        \/ RemoveInvalid(p)
        \/ OpenLock(p)
        \/ WriteLock(p)
        \/ Quit(p)
        \/ Exit(p)
        \/ Crash(p)

SpecLock == Init /\ [][NextLock]_vars

(***************************************************************************)
(* The window of the GUI (src/src/resume_builder_gui.py, class             *)
(* ResumeBuilderGUI): the personal-information tab, the job description    *)
(* of the optimize tab, and the buttons Get Suggestions, Save Resume and   *)
(* Clear All.  The other tabs are left as the constructor made them: no    *)
(* summary, no work experience, no education, no skills.  pc is "gui"      *)
(* while the window is open.                                               *)
(***************************************************************************)
MaxSaved == 1

\* what the user may type into a field
T_Bo == <<"B", "o">>

Typable(key) ==
    IF key = "full_name" THEN {T_Ann, T_Bo}
    ELSE IF key = "email" THEN {T_mail}
    ELSE IF key = "linkedin" THEN {<<>>}
    ELSE {}

\* the headings and the separator of the GUI's document
G_summary == <<"P", "R", "O", "F", "E", "S", "S", "I", "O", "N", "A", "L", " ", "S", "U", "M", "M", "A", "R", "Y">>
G_experience == <<"P", "R", "O", "F", "E", "S", "S", "I", "O", "N", "A", "L", " ", "E", "X", "P", "E", "R", "I", "E", "N", "C", "E">>
G_education == <<"E", "D", "U", "C", "A", "T", "I", "O", "N">>
G_skills == <<"S", "K", "I", "L", "L", "S">>
F_bullet == <<" ", "â", "", "¢", " ">>

\* self.resume_data as the constructor and clear_all make it
NoData ==
    [personal_info |-> [key \in {} |-> <<>>],
     professional_summary |-> <<>>,
     work_experience |-> <<>>,
     education |-> <<>>,
     skills |-> <<>>]

\* info.get(key, '')
Get(info, key) == IF key \in DOMAIN info THEN info[key] ELSE <<>>

\* ResumeBuilderGUI._generate_resume_text
gui_generate_resume_text(data) ==
    generate_resume_text(
        [data EXCEPT !.personal_info = [key \in Fields |-> Get(data.personal_info, key)]])

\* the key under which _add_personal_info reads the title
TitleKey == "name"

\* the paragraphs _add_personal_info adds to the document
add_personal_info(info) ==
    LET Present(key) == IF key \in DOMAIN info THEN <<info[key]>> ELSE <<>>
        contact_info == Present("email") \o Present("phone") \o Present("location")
    IN  <<Get(info, TitleKey)>>
        \o (IF contact_info # <<>> THEN <<Join(contact_info, F_bar)>> ELSE <<>>)
        \o Present("linkedin")
        \o << <<>> >>

\* the paragraphs of the document save_resume builds
GuiParagraphs(data) ==
    add_personal_info(data.personal_info)
    \o <<G_summary, data.professional_summary, G_experience, G_education,
         G_skills, Join(data.skills, F_bullet)>>

\* what the handlers of the window leave alone
OnlyWindow ==
    /\ UNCHANGED text_vars
    /\ UNCHANGED call_vars
    /\ UNCHANGED thread_vars
    /\ UNCHANGED <<model_installed, nlp_loaded>>
    /\ UNCHANGED <<console, document>>
    /\ UNCHANGED <<lock_file, procs>>

\* ResumeBuilderGUI(root)
OpenWindow ==
    /\ pc = "edit"
    /\ pc' = "gui"
    /\ resume_data' = NoData
    /\ UNCHANGED <<nlp, job_description, resume_text, analysis, suggestions>>
    /\ UNCHANGED <<saved, typed>>
    /\ OnlyWindow

\* a key is released in a field of the personal-information tab:
\* update_personal_info(key, e.widget.get())
KeyRelease ==
    /\ pc = "gui"
    /\ \E key \in Fields : \E value \in Typable(key) :
          /\ typed' = [typed EXCEPT ![key] = value]
          /\ resume_data' =
                 [resume_data EXCEPT !.personal_info =
                     [k \in DOMAIN @ \cup {key} |-> IF k = key THEN value ELSE @[k]]]
    /\ UNCHANGED <<nlp, job_description, resume_text, pc, analysis, suggestions>>
    /\ UNCHANGED saved
    /\ OnlyWindow

\* the user writes the job description of the optimize tab
EditJobDescription ==
    /\ pc = "gui"
    /\ \E job \in {<<" ">>, J_required} :
          /\ job_description' = job
          /\ nlp' \in Taggers(NewWords(job))
    /\ UNCHANGED <<resume_text, pc, analysis, suggestions>>
    /\ UNCHANGED <<resume_data, saved, typed>>
    /\ OnlyWindow

\* the button Get Suggestions: ResumeBuilderGUI.get_optimization_suggestions
GetSuggestions ==
    /\ pc = "gui"
    /\ IF Strip(job_description) = <<>>
       THEN UNCHANGED <<resume_text, analysis, suggestions>>
       ELSE LET text == gui_generate_resume_text(resume_data)
                job_analysis == analyze_job_description(Strip(job_description))
                resume_keywords == extract_keywords(text)
            IN  /\ resume_text' = text
                /\ analysis' = job_analysis
                /\ \E missing_required \in Orders(Missing(job_analysis.required_skills, resume_keywords)),
                      missing_preferred \in Orders(Missing(job_analysis.preferred_skills, resume_keywords)) :
                      suggestions' = Suggestions(job_analysis, missing_required, missing_preferred)
    /\ UNCHANGED <<nlp, job_description, pc>>
    /\ UNCHANGED <<resume_data, saved, typed>>
    /\ OnlyWindow

\* the button Save Resume: save_resume, the user choosing a .docx name or
\* closing the dialog
SaveResume ==
    /\ pc = "gui"
    /\ Len(saved) < MaxSaved
    /\ \E filename \in {"", "resume.docx"} :
          IF filename = "" THEN UNCHANGED saved
          ELSE saved' = Append(saved, [file |-> filename,
                                       paragraphs |-> GuiParagraphs(resume_data)])
    /\ UNCHANGED <<nlp, job_description, resume_text, pc, analysis, suggestions>>
    /\ UNCHANGED <<resume_data, typed>>
    /\ OnlyWindow

\* the button Clear All: clear_all, the user confirming or not
ClearAll ==
    /\ pc = "gui"
    /\ \E yes \in BOOLEAN :
          IF yes
          THEN /\ resume_data' = NoData
               /\ typed' = [key \in Fields |-> <<>>]
          ELSE UNCHANGED <<resume_data, typed>>
    /\ UNCHANGED <<nlp, job_description, resume_text, pc, analysis, suggestions>>
    /\ UNCHANGED saved
    /\ OnlyWindow

NextGui ==
    \/ OpenWindow
    \/ KeyRelease
    \/ EditJobDescription
    \/ GetSuggestions
    \/ SaveResume
    \/ ClearAll

SpecGui == Init /\ [][NextGui]_vars

(***************************************************************************)
(* Reading a text back, for the properties below.                          *)
(***************************************************************************)
Range(f) == {f[i] : i \in DOMAIN f}

HasPrefix(s, prefix) ==
    Len(s) >= Len(prefix) /\ SubSeq(s, 1, Len(prefix)) = prefix

AfterPrefix(s, prefix) == SubSeq(s, Len(prefix) + 1, Len(s))

\* the positions at which w occurs in s
Occurrences(s, w) ==
    {i \in 1..(Len(s) + 1 - Len(w)) : SubSeq(s, i, i + Len(w) - 1) = w}

\* the parts of s between the occurrences of ", "
RECURSIVE SplitOnSep(_)
SplitOnSep(s) ==
    LET at == Occurrences(s, Sep)
    IN  IF at = {} THEN <<s>>
        ELSE <<SubSeq(s, 1, Least(at) - 1)>> \o SplitOnSep(SubSeq(s, Least(at) + 2, Len(s)))

\* the kind of a suggestion: 1 required-skills gap, 2 preferred-skills gap,
\* 3 experience-level reminder, 4 education reminder, 0 anything else
Kind(s) ==
    IF HasPrefix(s, S_required) THEN 1
    ELSE IF HasPrefix(s, S_preferred) THEN 2
    ELSE IF HasPrefix(s, S_experience) THEN 3
    ELSE IF HasPrefix(s, S_education) THEN 4
    ELSE 0

\* the suggestions of kind k in the returned list
OfKind(k) == {i \in 1..Len(suggestions) : Kind(suggestions[i]) = k}

\* the skills of the profile's field that are not keywords of the resume
Gap(skills) ==
    {k \in BagToSet(skills) : k \notin BagToSet(extract_keywords(resume_text))}

(***************************************************************************)
(* C1.  The list returned by get_optimization_suggestions holds at most    *)
(* one suggestion of each kind, in the order required-skills gap,          *)
(* preferred-skills gap, experience-level reminder, education reminder;    *)
(* every entry is of one of the four kinds and lists something, and a      *)
(* kind is in the list only if its triggering condition holds.             *)
(***************************************************************************)
C1_FixedOrder ==
    pc = "suggested" =>
        /\ \A i \in 1..Len(suggestions) :
              /\ Kind(suggestions[i]) \in 1..4
              /\ \A j \in 1..Len(suggestions) :
                    i < j => Kind(suggestions[i]) < Kind(suggestions[j])
        /\ OfKind(1) # {} => Gap(analysis.required_skills) # {}
        /\ OfKind(2) # {} => Gap(analysis.preferred_skills) # {}
        /\ OfKind(3) # {} => analysis.experience_level # <<>>
        /\ OfKind(4) # {} => analysis.education_requirements # <<>>

\* a call that returned a suggestion of each of the four kinds
C1_Witness ==
    /\ pc = "suggested"
    /\ Len(suggestions) = 4
    /\ <<Kind(suggestions[1]), Kind(suggestions[2]), Kind(suggestions[3]),
          Kind(suggestions[4])>> = <<1, 2, 3, 4>>

(***************************************************************************)
(* C2.  get_optimization_suggestions returns a required-skills suggestion  *)
(* exactly when some required skill is not a keyword of the resume, and    *)
(* the suggestion names the required skills that are not keywords of the   *)
(* resume, each once and no other; likewise for the preferred skills.      *)
(***************************************************************************)
NamesExactly(kind, prefix, gap) ==
    /\ OfKind(kind) # {} <=> gap # {}
    /\ \A i \in OfKind(kind) :
          LET names == SplitOnSep(AfterPrefix(suggestions[i], prefix))
          IN  /\ Range(names) = gap
              /\ Len(names) = Cardinality(gap)

C2_SkillGaps ==
    pc = "suggested" =>
        /\ NamesExactly(1, S_required, Gap(analysis.required_skills))
        /\ NamesExactly(2, S_preferred, Gap(analysis.preferred_skills))

\* a call where one required skill is a keyword of the resume and two others
\* are not, and where a preferred skill is missing too
C2_Witness ==
    /\ pc = "suggested"
    /\ \E k \in BagToSet(analysis.required_skills) :
          k \in BagToSet(extract_keywords(resume_text))
    /\ Cardinality(Gap(analysis.required_skills)) >= 2
    /\ OfKind(1) # {}
    /\ OfKind(2) # {}

(***************************************************************************)
(* C3.  The experience reminder is returned exactly when the profile's     *)
(* experience_level is not empty and the education reminder exactly when   *)
(* education_requirements is not empty, whatever the resume text; each     *)
(* reminder lists the phrases of its sequence, all of them, in the order   *)
(* of the sequence, joined by ", ".                                        *)
(***************************************************************************)
RECURSIVE ListsInOrder(_, _)
ListsInOrder(text, phrases) ==
    IF phrases = <<>> THEN text = <<>>
    ELSE IF Len(phrases) = 1 THEN text = phrases[1]
    ELSE /\ HasPrefix(text, phrases[1] \o Sep)
         /\ ListsInOrder(AfterPrefix(text, phrases[1] \o Sep), Tail(phrases))

Reminds(kind, prefix, phrases) ==
    /\ OfKind(kind) # {} <=> phrases # <<>>
    /\ \A i \in OfKind(kind) :
          ListsInOrder(AfterPrefix(suggestions[i], prefix), phrases)

C3_Reminders ==
    pc = "suggested" =>
        /\ Reminds(3, S_experience, analysis.experience_level)
        /\ Reminds(4, S_education, analysis.education_requirements)

\* a call that returned both reminders, each with several phrases, and no
\* other suggestion, for a resume that is not empty
C3_Witness ==
    /\ pc = "suggested"
    /\ resume_text # <<>>
    /\ Len(analysis.experience_level) >= 2
    /\ Len(analysis.education_requirements) >= 2
    /\ Len(suggestions) = 2
    /\ OfKind(3) # {}
    /\ OfKind(4) # {}

(***************************************************************************)
(* C4.  The keywords of a text are exactly the lower-cased surface forms   *)
(* of the tokens the tagger labels NOUN, VERB or ADJ: every such token is  *)
(* in the result, every entry of the result comes from such a token (so a  *)
(* word labelled only PROPN, or anything else, is not in it), and every    *)
(* entry is the lower-cased surface form of some token of the text.        *)
(***************************************************************************)
C4_KeptCategories ==
    pc \in {"analyzed", "suggested"} =>
        LET doc == Tag(job_description)
            result == BagToSet(analysis.keywords)
        IN  /\ \A k \in 1..Len(doc) :
                  doc[k].pos_ \in {"NOUN", "VERB", "ADJ"} => Lower(doc[k].text) \in result
            /\ \A w \in result :
                  \E k \in 1..Len(doc) :
                      /\ Lower(doc[k].text) = w
                      /\ doc[k].pos_ \in {"NOUN", "VERB", "ADJ"}
            /\ \A k \in 1..Len(doc) :
                  (\A j \in 1..Len(doc) :
                      Lower(doc[j].text) = Lower(doc[k].text)
                          => doc[j].pos_ \notin {"NOUN", "VERB", "ADJ"})
                  => Lower(doc[k].text) \notin result

\* a profile of a text with a word labelled PROPN only, a word in upper and
\* lower case labelled NOUN and PROPN, and a punctuation token
C4_Witness ==
    /\ pc \in {"analyzed", "suggested"}
    /\ LET doc == Tag(job_description)
       IN  /\ \E k \in 1..Len(doc) :
                 /\ doc[k].pos_ = "PROPN"
                 /\ Lower(doc[k].text) \notin BagToSet(analysis.keywords)
           /\ \E k \in 1..Len(doc) :
                 /\ doc[k].pos_ = "PROPN"
                 /\ Lower(doc[k].text) \in BagToSet(analysis.keywords)
           /\ \E k \in 1..Len(doc) : doc[k].text = <<",">>

(***************************************************************************)
(* C5.  The result of extract_keywords holds no string twice and every     *)
(* entry is lower-case; tokens that differ in letter case only, or that    *)
(* occur several times in the text, give one entry.                        *)
(***************************************************************************)
C5_NoDuplicates ==
    pc \in {"analyzed", "suggested"} =>
        /\ \A w \in BagToSet(analysis.keywords) :
              /\ CopiesIn(w, analysis.keywords) = 1
              /\ w = Lower(w)
        /\ \A v, w \in BagToSet(analysis.keywords) : Lower(v) = Lower(w) => v = w

\* a profile of a text where a kept word occurs in two letter cases and
\* another kept word occurs twice in the same letter case
C5_Witness ==
    /\ pc \in {"analyzed", "suggested"}
    /\ LET doc == Tag(job_description)
           kept == {k \in 1..Len(doc) : doc[k].pos_ \in {"NOUN", "VERB", "ADJ"}}
       IN  /\ \E j, k \in kept :
                 /\ doc[j].text # doc[k].text
                 /\ Lower(doc[j].text) = Lower(doc[k].text)
           /\ \E j, k \in kept : j # k /\ doc[j].text = doc[k].text
    /\ \A w \in BagToSet(analysis.keywords) : CopiesIn(w, analysis.keywords) = 1

(***************************************************************************)
(* C6.  required_skills holds the keywords of the sections labelled        *)
(* 'required:', 'must have:' or 'requirements:' and preferred_skills those *)
(* of the sections labelled 'preferred:', 'nice to have:' or 'bonus:',     *)
(* whatever the letter case of the label: on every line of the job         *)
(* description, each label that occurs on it with its colon starts a       *)
(* section that runs to the end of that line, and the field holds the      *)
(* keywords of the trimmed text after the colon of every such section and  *)
(* nothing else.  A label word without its colon starts no section.        *)
(***************************************************************************)
\* the lines of a text
RECURSIVE LinesOf(_)
LinesOf(text) ==
    IF IndexOf(text, "\n") = 0 THEN <<text>>
    ELSE <<SubSeq(text, 1, IndexOf(text, "\n") - 1)>>
         \o LinesOf(SubSeq(text, IndexOf(text, "\n") + 1, Len(text)))

\* the keywords of the sections the labels start on the lines of text
SectionKeywords(text, labels) ==
    LET lines == LinesOf(text)
        starts == {x \in (1..Len(lines)) \X labels :
                      Occurrences(Lower(lines[x[1]]), x[2]) # {}}
        rest(x) == SubSeq(lines[x[1]],
                          Least(Occurrences(Lower(lines[x[1]]), x[2])) + Len(x[2]),
                          Len(lines[x[1]]))
    IN  UNION {BagToSet(extract_keywords(Strip(rest(x)))) : x \in starts}

C6_LabelledSections ==
    pc \in {"analyzed", "suggested"} =>
        /\ BagToSet(analysis.required_skills) =
               SectionKeywords(job_description, {L_required, L_must_have, L_requirements})
        /\ BagToSet(analysis.preferred_skills) =
               SectionKeywords(job_description, {L_preferred, L_nice_to_have, L_bonus})

\* a profile of a job description where a label in capitals starts a section
\* on one line and the word 'required' stands without a colon on another,
\* after other keywords
C6_Witness ==
    /\ pc \in {"analyzed", "suggested"}
    /\ Occurrences(job_description, L_required) = {}
    /\ Occurrences(Lower(job_description), L_required) # {}
    /\ \E i \in Occurrences(Lower(job_description), W_required) :
          /\ i + Len(W_required) > Len(job_description)
          /\ W_experience \in BagToSet(analysis.keywords)
          /\ W_experience \notin BagToSet(analysis.required_skills)
    /\ BagToSet(analysis.required_skills) # {}
    /\ BagToSet(analysis.preferred_skills) = {}

(***************************************************************************)
(* C7.  In every profile, required_skills, preferred_skills and keywords   *)
(* hold no entry more than once.                                           *)
(***************************************************************************)
C7_KeywordSets ==
    pc \in {"analyzed", "suggested"} =>
        \A field \in {analysis.required_skills, analysis.preferred_skills,
                      analysis.keywords} :
            \A w \in BagToSet(field) : CopiesIn(w, field) = 1

(***************************************************************************)
(* C8, as stated.  The entries of experience_level and of                  *)
(* education_requirements are the phrases found in the job description in  *)
(* the order of the positions at which they start, whichever pattern found *)
(* them.                                                                   *)
(***************************************************************************)
InTextOrder(entries, patterns) ==
    LET found == Matches(patterns, Lower(job_description))
    IN  /\ Len(entries) = Len(found)
        /\ \A i \in 1..Len(found) : entries[i] = Group0(job_description, found[i])
        /\ \A i, j \in 1..Len(found) : i < j => found[i][1] <= found[j][1]

FoundBy(p) == FindIter(p, Lower(job_description))

InPatternOrder(entries, patterns) ==
    /\ entries = AppendAll(FoundBy(patterns[1]), job_description)
                 \o AppendAll(FoundBy(patterns[2]), job_description)
                 \o AppendAll(FoundBy(patterns[3]), job_description)
    /\ \A p \in 1..3 :
          \A i \in 1..(Len(FoundBy(patterns[p])) - 1) :
              FoundBy(patterns[p])[i][2] <= FoundBy(patterns[p])[i + 1][1]

P_five_years == <<"5", "+", " ", "y", "e", "a", "r", "s", " ", "o", "f", " ", "e", "x", "p", "e", "r", "i", "e", "n", "c", "e">>

\* the number of entries of the sequence equal to e
CountOf(entries, e) == Cardinality({i \in 1..Len(entries) : entries[i] = e})

C9_VerbatimPhrases ==
    pc \in {"analyzed", "suggested"} =>
        /\ \A i \in 1..Len(analysis.experience_level) :
              LET e == analysis.experience_level[i]
              IN  /\ Occurrences(job_description, e) # {}
                  /\ \E p \in 1..3 :
                        MatchAt(experience_patterns[p], Lower(e), 1) = Len(e) + 1
                  /\ CountOf(analysis.experience_level, e) =
                        Cardinality(Occurrences(job_description, e))
        /\ CountOf(analysis.experience_level, P_five_years) =
              Cardinality(Occurrences(job_description, P_five_years))
        /\ ( /\ Cardinality(Occurrences(job_description, P_five_years)) = 1
             /\ Cardinality(Occurrences(Lower(job_description), W_experience)) = 1
             /\ Occurrences(Lower(job_description), W_level) = {} )
           => /\ analysis.experience_level = <<P_five_years>>
              /\ pc = "suggested" =>
                    \E i \in 1..Len(suggestions) :
                        suggestions[i] = S_experience \o P_five_years

\* the suggestions for a job description where '5+ years of experience'
\* occurs twice
C9_Witness ==
    /\ pc = "suggested"
    /\ Cardinality(Occurrences(job_description, P_five_years)) = 2
    /\ analysis.experience_level = <<P_five_years, P_five_years>>
    /\ OfKind(3) # {}

(***************************************************************************)
(* C10.  For a job description that is plain prose (no section label, no   *)
(* experience phrase, no degree word or abbreviation standing as a word)   *)
(* the profile's required_skills, preferred_skills, experience_level and   *)
(* education_requirements are empty and get_optimization_suggestions       *)
(* returns the empty list, also when words of the prose contain the        *)
(* letters of a label or of an abbreviation.                               *)
(***************************************************************************)
\* plain prose: no colon and no digit, and no token that is a degree word, a
\* degree abbreviation, a level or the word experience
Prose(text) ==
    LET toks == TokensFrom(Lower(text), 1)
    IN  /\ text # <<>>
        /\ \A i \in 1..Len(text) : text[i] # ":" /\ ~IsDigit(text[i])
        /\ \A k \in 1..Len(toks) :
              toks[k] \notin {W_phd, W_degree, W_bs, W_ms, W_experience, W_level,
                              W_entry, W_mid, W_senior, W_lead, W_principal,
                              <<"b", "a", "c", "h", "e", "l", "o", "r">>,
                              <<"m", "a", "s", "t", "e", "r">>}

C10_ProseGivesNothing ==
    (pc \in {"analyzed", "suggested"} /\ Prose(job_description)) =>
        /\ analysis.required_skills = EmptyBag
        /\ analysis.preferred_skills = EmptyBag
        /\ analysis.experience_level = <<>>
        /\ analysis.education_requirements = <<>>
        /\ pc = "suggested" => suggestions = <<>>

(***************************************************************************)
(* C11, as stated.  For a job description made of a 'Requirements:' line and a        *)
(* 'Preferred:' line that each list skill names, required_skills holds the *)
(* lower-cased form of every skill listed on the first line and            *)
(* preferred_skills that of every skill listed on the second; and the      *)
(* suggestions for a resume name every listed required skill that no word  *)
(* of the resume mentions.                                                 *)
(***************************************************************************)
P_requirements == <<"R", "e", "q", "u", "i", "r", "e", "m", "e", "n", "t", "s", ":", " ">>
P_preferred == <<"P", "r", "e", "f", "e", "r", "r", "e", "d", ":", " ">>

\* the lower-cased names a line lists after its label
ListedSkills(line, label) ==
    {Lower(n) : n \in Range(SplitOnSep(AfterPrefix(line, label)))}

\* the lower-cased words of a text
WordsOf(text) == {Lower(w) : w \in Range(TokensFrom(text, 1))}

\* the names the suggestions of a kind list
NamedBy(kind, prefix) ==
    UNION {Range(SplitOnSep(AfterPrefix(suggestions[i], prefix))) : i \in OfKind(kind)}

C11_ListedSkills ==
    LET lines == LinesOf(job_description)
    IN  ( /\ pc \in {"analyzed", "suggested"}
          /\ Len(lines) = 2
          /\ HasPrefix(lines[1], P_requirements)
          /\ HasPrefix(lines[2], P_preferred) )
        => /\ ListedSkills(lines[1], P_requirements)
                 \subseteq BagToSet(analysis.required_skills)
           /\ ListedSkills(lines[2], P_preferred)
                 \subseteq BagToSet(analysis.preferred_skills)
           /\ (pc = "suggested" /\ resume_text # <<>>) =>
                 (ListedSkills(lines[1], P_requirements) \ WordsOf(resume_text))
                     \subseteq NamedBy(1, S_required)

(***************************************************************************)
(* C11, amended.  For a job description made of a 'Requirements:' line and *)
(* a 'Preferred:' line that each list skill names, required_skills holds   *)
(* the lower-cased form of every skill listed on the first line that the   *)
(* tagger labels NOUN, VERB or ADJ, and preferred_skills that of every     *)
(* such skill listed on the second; a listed skill the tagger labels       *)
(* otherwise (PROPN, say) is in neither.  The suggestions for a resume     *)
(* name exactly the kept required skills that are not keywords of the      *)
(* resume.                                                                 *)
(***************************************************************************)
\* the lower-cased forms of the listed names that the tagger labels NOUN,
\* VERB or ADJ
ListedKept(line, label) ==
    UNION { LET doc == Tag(n)
            IN  {Lower(doc[k].text) :
                    k \in {j \in 1..Len(doc) : doc[j].pos_ \in {"NOUN", "VERB", "ADJ"}}}
            : n \in Range(SplitOnSep(AfterPrefix(line, label))) }

C11_ListedKeptSkills ==
    LET lines == LinesOf(job_description)
    IN  ( /\ pc \in {"analyzed", "suggested"}
          /\ Len(lines) = 2
          /\ HasPrefix(lines[1], P_requirements)
          /\ HasPrefix(lines[2], P_preferred) )
        => /\ BagToSet(analysis.required_skills) = ListedKept(lines[1], P_requirements)
           /\ BagToSet(analysis.preferred_skills) = ListedKept(lines[2], P_preferred)
           /\ (pc = "suggested" /\ resume_text # <<>>) =>
                 NamedBy(1, S_required) =
                     ListedKept(lines[1], P_requirements)
                         \ BagToSet(extract_keywords(resume_text))

\* the suggestions for such a job description and a resume, where one listed
\* required skill is labelled PROPN and dropped, another is kept and named,
\* and a listed preferred skill is dropped
C11_Witness ==
    LET lines == LinesOf(job_description)
    IN  /\ pc = "suggested"
        /\ \E i \in 1..Len(resume_text) : ~IsSpace(resume_text[i])
        /\ Len(lines) = 2
        /\ HasPrefix(lines[1], P_requirements)
        /\ HasPrefix(lines[2], P_preferred)
        /\ ListedSkills(lines[1], P_requirements) \ BagToSet(analysis.required_skills) # {}
        /\ ListedSkills(lines[2], P_preferred) \ BagToSet(analysis.preferred_skills) # {}
        /\ NamedBy(1, S_required) # {}

(***************************************************************************)
(* C12.  With an empty or whitespace-only resume text and a job            *)
(* description whose required_skills is not empty, the first suggestion    *)
(* returned is the required-skills suggestion and it lists every member of *)
(* required_skills, each once.                                             *)
(***************************************************************************)
\* a text with no character other than whitespace
Blank(text) == \A i \in 1..Len(text) : IsSpace(text[i])

C12_FullGap ==
    ( /\ pc = "suggested"
      /\ Blank(resume_text)
      /\ BagToSet(analysis.required_skills) # {} )
    => /\ Len(suggestions) >= 1
       /\ Kind(suggestions[1]) = 1
       /\ LET names == SplitOnSep(AfterPrefix(suggestions[1], S_required))
          IN  /\ Range(names) = BagToSet(analysis.required_skills)
              /\ Len(names) = Cardinality(BagToSet(analysis.required_skills))

\* the suggestions for a whitespace-only resume and a job description with
\* several required skills, one of them found after two labels
C12_Witness ==
    /\ pc = "suggested"
    /\ resume_text # <<>>
    /\ Blank(resume_text)
    /\ Cardinality(BagToSet(analysis.required_skills)) >= 3
    /\ \E w \in BagToSet(analysis.required_skills) :
          CopiesIn(w, analysis.required_skills) >= 2
    /\ Len(suggestions) >= 2
    /\ Kind(suggestions[1]) = 1

(***************************************************************************)
(* C13.  Deleting one whole line that carries a required-skills label      *)
(* from a job description gives a profile whose required_skills is a part  *)
(* of the original required_skills: no new required skill appears, and the *)
(* original required_skills is what the remaining lines contribute         *)
(* together with what the deleted line contributes on its own.             *)
(***************************************************************************)
\* the text without its i-th line
DeleteLine(text, i) ==
    LET lines == LinesOf(text)
    IN  Join(SubSeq(lines, 1, i - 1) \o SubSeq(lines, i + 1, Len(lines)), <<"\n">>)

\* the lines of the text that carry a required-skills label
RequiredLines(text) ==
    {i \in 1..Len(LinesOf(text)) :
        \E label \in {L_required, L_must_have, L_requirements} :
            Occurrences(Lower(LinesOf(text)[i]), label) # {}}

C13_Monotone ==
    pc \in {"analyzed", "suggested"} =>
        \A i \in RequiredLines(job_description) :
            LET rest == analyze_job_description(DeleteLine(job_description, i)).required_skills
                line == analyze_job_description(LinesOf(job_description)[i]).required_skills
            IN  /\ rest \sqsubseteq analysis.required_skills
                /\ BagToSet(rest) \subseteq BagToSet(analysis.required_skills)
                /\ analysis.required_skills = rest (+) line

\* a profile of a job description with two lines that carry a required-skills
\* label, where deleting either line loses a required skill and keeps another
C13_Witness ==
    /\ pc \in {"analyzed", "suggested"}
    /\ Cardinality(RequiredLines(job_description)) = 2
    /\ \A i \in RequiredLines(job_description) :
          LET rest == BagToSet(analyze_job_description(
                                   DeleteLine(job_description, i)).required_skills)
          IN  /\ rest # {}
              /\ rest # BagToSet(analysis.required_skills)

SameLabels ==
    \A w \in DOMAIN nlp_again \cap DOMAIN nlp : nlp_again[w] = nlp[w]

WellFormed(text) ==
    /\ \A i \in 1..Len(text) : IsWord(text[i]) \/ text[i] = " " \/ text[i] \in KeptPunctuation
    /\ \A i \in 1..(Len(text) - 1) : ~(IsSpace(text[i]) /\ IsSpace(text[i + 1]))
    /\ text # <<>> => ~IsSpace(text[1]) /\ ~IsSpace(text[Len(text)])

C15_OnlyCleaned ==
    pc \in {"optimized", "reoptimized"} =>
        /\ WellFormed(optimized_text)
        /\ optimized_text = Strip(CollapseSpaces(RemoveSpecial(resume_text)))

NotSpace(c) == ~IsSpace(c)

(***************************************************************************)
(* C15, amended.  The output of optimize_text contains only word           *)
(* characters, single spaces and the punctuation . , ; : ( ), has no run   *)
(* of whitespace, no line end and no whitespace at either end.  Its tokens *)
(* are the tokens of the input without the removed characters, separated   *)
(* by one space each: a token labelled NOUN, PROPN or VERB has its first   *)
(* character in upper case and the others in lower case, every other token *)
(* is as it was.                                                           *)
(***************************************************************************)
C15_CleanedAndCapitalized ==
    pc \in {"optimized", "reoptimized"} =>
        LET cleaned == RemoveSpecial(resume_text)
            before == TokensFrom(cleaned, 1)
            after == TokensFrom(optimized_text, 1)
        IN  /\ WellFormed(optimized_text)
            /\ Lower(SelectSeq(optimized_text, NotSpace)) = Lower(SelectSeq(cleaned, NotSpace))
            /\ Len(after) = Len(before)
            /\ \A k \in 1..Len(before) :
                  after[k] = IF PosOf(before[k]) \in ImportantPos
                             THEN Capitalize(before[k]) ELSE before[k]
            /\ Len(optimized_text) =
                  Len(SelectSeq(cleaned, NotSpace)) + (IF before = <<>> THEN 0 ELSE Len(before) - 1)

\* a text with a removed character and whitespace has been optimized, and
\* the result is not the text with only these taken care of
C15_Witness ==
    /\ pc = "optimized"
    /\ \E i \in 1..Len(resume_text) : ~Kept(resume_text[i])
    /\ \E i \in 1..Len(resume_text) : IsSpace(resume_text[i])
    /\ optimized_text # <<>>
    /\ optimized_text # Strip(CollapseSpaces(RemoveSpecial(resume_text)))

(***************************************************************************)
(* C16.  On an empty or whitespace-only text optimize_text returns the     *)
(* empty string, extract_keywords returns no keyword and                   *)
(* analyze_job_description returns a profile whose five fields are empty;  *)
(* with an empty or whitespace-only job description                        *)
(* get_optimization_suggestions returns the empty list, whatever the       *)
(* resume text.                                                            *)
(***************************************************************************)
C16_EmptyInput ==
    /\ (pc = "optimized" /\ Blank(resume_text)) => optimized_text = <<>>
    /\ (pc \in {"analyzed", "suggested"} /\ Blank(job_description)) =>
          /\ analysis.keywords = EmptyBag
          /\ analysis.required_skills = EmptyBag
          /\ analysis.preferred_skills = EmptyBag
          /\ analysis.experience_level = <<>>
          /\ analysis.education_requirements = <<>>
          /\ extract_keywords(job_description) = EmptyBag
    /\ (pc = "suggested" /\ Blank(resume_text)) =>
          extract_keywords(resume_text) = EmptyBag
    /\ (pc = "suggested" /\ Blank(job_description)) => suggestions = <<>>

\* suggestions have been asked for a whitespace-only job description and a
\* resume that has keywords
C16_Witness ==
    /\ pc = "suggested"
    /\ job_description # <<>>
    /\ Blank(job_description)
    /\ extract_keywords(resume_text) # EmptyBag
    /\ suggestions = <<>>

(***************************************************************************)
(* C17.  analyze_job_description never raises: every match of a required   *)
(* or preferred pattern contains a colon, so the part after the first      *)
(* colon is defined, whether the label has nothing after its colon, only   *)
(* whitespace after it, other labels or colons on its line, or stands at   *)
(* the very end of the text; and a label with an empty remainder           *)
(* contributes no keywords.                                                *)
(***************************************************************************)
\* the matches of the required and of the preferred patterns
LabelMatches(text) ==
    Matches(required_patterns, Lower(text)) \o Matches(preferred_patterns, Lower(text))

\* the number of colons of s
Colons(s) == Cardinality({i \in 1..Len(s) : s[i] = ":"})

C17_NeverRaises ==
    /\ pc # "raised"
    /\ \A m \in Range(LabelMatches(job_description)) :
          Colons(Group0(job_description, m)) >= 1
    /\ pc \in {"analyzed", "suggested"} =>
          LET HasRemainder(m) == AfterFirstColon(Group0(job_description, m)) # <<>>
              required == Matches(required_patterns, Lower(job_description))
              preferred == Matches(preferred_patterns, Lower(job_description))
          IN  /\ analysis.required_skills =
                    ExtendAll(SelectSeq(required, HasRemainder), job_description)
              /\ analysis.preferred_skills =
                    ExtendAll(SelectSeq(preferred, HasRemainder), job_description)

\* a profile of a job description that ends in a label with nothing after
\* its colon and has a line with two labels
C17_Witness ==
    /\ pc = "analyzed"
    /\ job_description # <<>>
    /\ job_description[Len(job_description)] = ":"
    /\ \E m \in Range(LabelMatches(job_description)) :
          AfterFirstColon(Group0(job_description, m)) = <<>>
    /\ \E m \in Range(LabelMatches(job_description)) :
          Colons(Group0(job_description, m)) >= 2
    /\ analysis.preferred_skills # EmptyBag

\* a profile of a job description whose label is followed only by whitespace
C17_WhitespaceRemainder ==
    /\ pc = "analyzed"
    /\ \E m \in Range(LabelMatches(job_description)) :
          LET part == SplitColon(Group0(job_description, m))[2]
          IN  part # <<>> /\ Blank(part)

(***************************************************************************)
(* C18.  No keyword of a profile (in required_skills, preferred_skills or  *)
(* keywords) and no keyword of the resume is the empty string or a token   *)
(* made of punctuation characters only.                                    *)
(***************************************************************************)
\* w is not empty and has a character that is not punctuation
WordLike(w) == \E i \in 1..Len(w) : IsWord(w[i])

C18_NoPunctuationKeywords ==
    pc \in {"analyzed", "suggested"} =>
        /\ \A w \in BagToSet(analysis.keywords) : WordLike(w)
        /\ \A w \in BagToSet(analysis.required_skills) : WordLike(w)
        /\ \A w \in BagToSet(analysis.preferred_skills) : WordLike(w)
        /\ \A w \in BagToSet(extract_keywords(resume_text)) : WordLike(w)

(***************************************************************************)
(* C19.  In a sequence of calls on one ATSOptimizer the result of a call   *)
(* depends on the call's arguments only: the profile is the profile of the *)
(* job description, two calls with the same texts return equal profiles    *)
(* and suggestions of equal content, and a profile the caller holds and    *)
(* has changed is not what a later call returns.                           *)
(***************************************************************************)
\* what a list of suggestions says: the kind and the names of each
Content(list) ==
    LET Names(x) ==
            LET prefix == CASE Kind(x) = 1 -> S_required
                            [] Kind(x) = 2 -> S_preferred
                            [] Kind(x) = 3 -> S_experience
                            [] Kind(x) = 4 -> S_education
                            [] OTHER -> <<>>
            IN  Range(SplitOnSep(AfterPrefix(x, prefix)))
    IN  {<<Kind(x), Names(x)>> : x \in Range(list)}

SuggestionsAlone(resume, job) ==
    LET job_analysis == analyze_job_description(job)
        resume_keywords == extract_keywords(resume)
    IN  {Suggestions(job_analysis, missing_required, missing_preferred) :
            missing_required \in Orders(Missing(job_analysis.required_skills, resume_keywords)),
            missing_preferred \in Orders(Missing(job_analysis.preferred_skills, resume_keywords))}

C20_SameAsAlone ==
    \A t \in Threads :
        /\ threads[t].pc # "raised"
        /\ threads[t].pc \in {"analyzed", "done"} =>
              frames[Frame(t)].analysis = analyze_job_description(threads[t].job)
        /\ (threads[t].pc = "done" /\ threads[t].op = "suggest") =>
              frames[Frame(t)].suggestions \in SuggestionsAlone(threads[t].resume, threads[t].job)

\* a call has returned suggestions while another thread is in the middle of
\* a call on another job description, with skills in its dictionary
C20_Witness ==
    \E t, u \in Threads :
        /\ threads[t].pc = "done"
        /\ threads[t].op = "suggest"
        /\ frames[Frame(t)].suggestions # <<>>
        /\ threads[u].pc \in {"preferred", "experience", "education"}
        /\ threads[u].job # threads[t].job
        /\ frames[Frame(u)].analysis.keywords # EmptyBag

(***************************************************************************)
(* C21.  When the language model cannot be loaded the constructor of       *)
(* ATSOptimizer ends with an error: an ATSOptimizer exists only with a     *)
(* loaded tagger, and every call of extract_keywords,                      *)
(* analyze_job_description and get_optimization_suggestions is made on an  *)
(* object whose tagger is loaded.                                          *)
(***************************************************************************)
C21_NoOptimizerWithoutTagger ==
    /\ pc \notin {"start", "aborted"} => nlp_loaded
    /\ pc = "aborted" =>
          /\ ~nlp_loaded
          /\ analysis = EmptyAnalysis
          /\ suggestions = <<>>
          /\ optimized_text = <<>>

\* the model was not installed and could not be made loadable: the
\* constructor has raised
C21_Witness ==
    /\ pc = "aborted"
    /\ ~model_installed
    /\ ~nlp_loaded

(***************************************************************************)
(* C22.  Each occurrence of an experience phrase in the job description    *)
(* gives one entry of experience_level: no two entries come from spans of  *)
(* the text that overlap.                                                  *)
(***************************************************************************)
\* the spans <<first, after>> overlap
Overlap(m, n) == m[1] < n[2] /\ n[1] < m[2]

C22_NoOverlappingEntries ==
    pc \in {"analyzed", "suggested"} =>
        LET ms == Matches(experience_patterns, Lower(job_description))
        IN  /\ Len(analysis.experience_level) = Len(ms)
            /\ \A i, j \in 1..Len(ms) : i # j => ~Overlap(ms[i], ms[j])

(***************************************************************************)
(* C23.  education_requirements holds one entry, the matched text, for     *)
(* each occurrence of an education phrase in the job description: no       *)
(* occurrence gives two entries.                                           *)
(***************************************************************************)
C23_OneEntryPerOccurrence ==
    pc \in {"analyzed", "suggested"} =>
        LET ms == Matches(education_patterns, Lower(job_description))
        IN  /\ analysis.education_requirements =
                  [k \in 1..Len(ms) |-> SubSeq(job_description, ms[k][1], ms[k][2] - 1)]
            /\ \A i, j \in 1..Len(ms) : i # j => ms[i] # ms[j]

(***************************************************************************)
(* C24.  The suggestions depend on the job description through             *)
(* required_skills, preferred_skills, experience_level and                 *)
(* education_requirements only: a job description with the same four       *)
(* fields gives the same suggestions for the resume, whatever its          *)
(* keywords, and only skills of the two skill fields are named as missing. *)
(***************************************************************************)
\* a profile without its keywords
FourFields(profile) == [profile EXCEPT !.keywords = EmptyBag]

C24_KeywordsUnused ==
    pc = "suggested" =>
        /\ \A other \in JobLines \cup {<<>>} :
              ( /\ NewWords(other) = {}
                /\ FourFields(analyze_job_description(other)) = FourFields(analysis) )
              => suggestions \in SuggestionsAlone(resume_text, other)
        /\ NamedBy(1, S_required) \subseteq BagToSet(analysis.required_skills)
        /\ NamedBy(2, S_preferred) \subseteq BagToSet(analysis.preferred_skills)

\* suggestions for a job description with a keyword that is in no skill
\* field and not in the resume, and another job description has the same
\* four fields and other keywords
C24_Witness ==
    /\ pc = "suggested"
    /\ suggestions # <<>>
    /\ \E w \in BagToSet(analysis.keywords) :
          /\ w \notin BagToSet(analysis.required_skills)
          /\ w \notin BagToSet(analysis.preferred_skills)
          /\ w \notin BagToSet(extract_keywords(resume_text))
    /\ \E other \in JobLines :
          /\ NewWords(other) = {}
          /\ FourFields(analyze_job_description(other)) = FourFields(analysis)
          /\ analyze_job_description(other).keywords # analysis.keywords


(***************************************************************************)
(* ResumeBuilder.apply_optimization_suggestions.                           *)
(* C25.  Once the user has agreed to apply the suggestions, every          *)
(* suggestion of the list was handled by the branch of its own kind: a     *)
(* required-skills gap by the required-skills branch, a preferred-skills   *)
(* gap by the preferred-skills branch, an experience reminder by the       *)
(* experience-level branch, which asks about highlighting the level, and   *)
(* an education reminder by the education branch; none was skipped.        *)
(***************************************************************************)
\* the user has agreed to apply the suggestions and the method has returned
Applied ==
    /\ pc \in {"generate", "done"}
    /\ \E j \in 1..Len(console) : console[j] = Asked("apply_suggestions", <<>>, TRUE)

\* the branch meant for a suggestion of each kind
OwnBranch(s) ==
    IF Kind(s) = 1 THEN "required"
    ELSE IF Kind(s) = 2 THEN "preferred"
    ELSE IF Kind(s) = 3 THEN "experience"
    ELSE "education"

C25_OwnBranch ==
    Applied =>
        \A k \in 1..Len(suggestions) :
            /\ Branch(suggestions[k]) = OwnBranch(suggestions[k])
            /\ \E j \in 1..Len(console) : console[j].event = OwnBranch(suggestions[k])

(***************************************************************************)
(* C26.  In apply_optimization_suggestions the skills read back from a     *)
(* required- or preferred-skills suggestion are exactly the missing        *)
(* skills the suggestion was built from, each of them is asked about       *)
(* once, the skills of resume_data after the call are the skills before    *)
(* it followed by the skills the user confirmed, in the order asked, and   *)
(* the personal information, the work experience and the education are     *)
(* left as they were.                                                      *)
(***************************************************************************)
\* the items the branch reads back from the suggestion of a kind, if any
ReadBack(kind) ==
    IF OfKind(kind) = {} THEN <<>>
    ELSE LET questions == Questions(suggestions[CHOOSE i \in OfKind(kind) : TRUE])
         IN  [k \in 1..Len(questions) |-> questions[k].item]

C26_SkillsRoundTrip ==
    [][(pc = "shown" /\ pc' = "generate" /\ console'[Len(console) + 1].answer) =>
          LET shown == SubSeq(console', Len(console) + 2, Len(console'))
              IsSkill(e) == e.event \in {"required", "preferred"}
              Confirmed(e) == IsSkill(e) /\ e.answer
              yes == SelectSeq(shown, Confirmed)
              AskedAbout(branch, skill) ==
                  Cardinality({j \in 1..Len(shown) :
                      shown[j].event = branch /\ shown[j].item = skill})
          IN  /\ Range(ReadBack(1)) = Gap(analysis.required_skills)
              /\ Len(ReadBack(1)) = Cardinality(Gap(analysis.required_skills))
              /\ Range(ReadBack(2)) = Gap(analysis.preferred_skills)
              /\ Len(ReadBack(2)) = Cardinality(Gap(analysis.preferred_skills))
              /\ \A skill \in Gap(analysis.required_skills) : AskedAbout("required", skill) = 1
              /\ \A skill \in Gap(analysis.preferred_skills) : AskedAbout("preferred", skill) = 1
              /\ resume_data'.skills =
                     resume_data.skills \o [k \in 1..Len(yes) |-> yes[k].item]
              /\ \A section \in {"personal_info", "work_experience", "education"} :
                     resume_data'[section] = resume_data[section]]_vars

\* the user was asked about two missing skills, confirmed one and declined
\* the other, and the resume had a skill already
C26_Witness ==
    /\ Applied
    /\ \E i, j \in 1..Len(console) :
          /\ console[i].event \in {"required", "preferred"} /\ console[i].answer
          /\ console[j].event \in {"required", "preferred"} /\ ~console[j].answer
          /\ console[i].item # console[j].item
          /\ Len(resume_data.skills) = 2
          /\ resume_data.skills[2] = console[i].item
          /\ console[j].item \notin Range(resume_data.skills)


(***************************************************************************)
(* ResumeBuilder.optimize_existing_resume and create_new_resume.           *)
(* C29.  An optimized document is written only after the file was found,   *)
(* the job description asked, the suggestions shown and the confirmation   *)
(* given, in that order.  When the path names no file the program reports  *)
(* that the file was not found and returns: no job description is asked,   *)
(* no suggestion computed, nothing written.  When the user declines the    *)
(* confirmation no paragraph is changed and nothing is written.  In        *)
(* create_new_resume the resume is written exactly once, as the last       *)
(* thing, whatever the user answered to the optimisation questions.        *)
(***************************************************************************)
\* the entries of console with this event
Events(event) == {j \in 1..Len(console) : console[j].event = event}

C29_SaveOrder ==
    /\ \A k \in 1..Len(saved) :
          saved[k].file = "optimized_resume" =>
              console = <<Asked("has_resume", <<>>, TRUE),
                          Asked("file_path", <<>>, TRUE),
                          Asked("job_description", job_description, TRUE)>>
                        \o [i \in 1..Len(suggestions) |-> Said("suggestion", suggestions[i])]
                        \o <<Asked("apply_optimizations", <<>>, TRUE), Said("saved", <<>>)>>
    /\ Events("file_not_found") # {} =>
          /\ pc = "done"
          /\ console[Len(console)].event = "file_not_found"
          /\ Events("job_description") = {}
          /\ Events("suggestion") = {}
          /\ analysis = EmptyAnalysis /\ suggestions = <<>>
          /\ document = <<>> /\ saved = <<>>
    /\ (\E j \in Events("apply_optimizations") : ~console[j].answer) =>
          /\ saved = <<>>
          /\ resume_text = Join(document, <<"\n">>)
    /\ (console # <<>> /\ ~console[1].answer) =>
          IF pc = "done"
          THEN /\ Len(saved) = 1
               /\ saved[1] = [file |-> "resume", paragraphs |-> ResumeParagraphs(resume_data)]
               /\ console[Len(console)].event = "saved"
               /\ Cardinality(Events("saved")) = 1
          ELSE saved = <<>> /\ pc # "raised"

\* an optimized document was written, after suggestions were shown, and a
\* paragraph of it is not as it was in the file
C29_Witness ==
    /\ pc = "done"
    /\ Len(saved) = 1 /\ saved[1].file = "optimized_resume"
    /\ Events("suggestion") # {}
    /\ saved[1].paragraphs = document
    /\ resume_text # Join(document, <<"\n">>)


(***************************************************************************)
(* check_single_instance.                                                  *)
(* C27.  Under every interleaving of the processes that start the GUI, at  *)
(* most one live process at a time has obtained True from                  *)
(* check_single_instance; while it runs, every other process that has      *)
(* finished the check was refused, and the lock file exists and names the  *)
(* process id of the instance that runs.                                   *)
(***************************************************************************)
\* the processes that obtained True and run the GUI
Running == {p \in Pids : procs[p].pc = "window"}

C27_SingleInstance ==
    /\ Cardinality(Running) <= 1
    /\ \A p \in Running : lock_file.exists /\ lock_file.text = Str(p)

(***************************************************************************)
(* C28.  A launch is refused only because of a live instance: whenever     *)
(* check_single_instance returns False while the lock file can be          *)
(* written, another process of the GUI is alive.  (So a launch made while  *)
(* no instance runs, after any starts, exits and crashes, succeeds.)       *)
(***************************************************************************)
C28_RefusedOnlyByInstance ==
    [][\A p \in Pids :
          (/\ procs[p].pc \in GuiPlaces \ {"refused"}
           /\ procs'[p].pc = "refused"
           /\ lock_file.writable)
          => \E q \in Pids \ {p} : procs[q].pc \in GuiPlaces]_vars


(***************************************************************************)
(* The personal-information tab of the GUI.                                *)
(* C30.  Every value typed into a field of the personal-information tab    *)
(* is held by resume_data['personal_info'] under the field's key, and is   *)
(* read back under that key when the resume is built: the document         *)
(* save_resume writes has the full name typed last as its title, and the   *)
(* resume text given to the analysis begins with that name.                *)
(***************************************************************************)
C30_FullNameUsed ==
    [][/\ pc = "gui" =>
              \A key \in Fields : Get(resume_data.personal_info, key) = typed[key]
       /\ Len(saved') > Len(saved) =>
              saved'[Len(saved')].paragraphs[1] = typed["full_name"]
       /\ resume_text' # resume_text =>
              HasPrefix(resume_text', typed["full_name"] \o <<"\n">>)]_vars

====
